---- MODULE Spec2Model ----
(***************************************************************************)
(* Model of the HTTP request/response engine of http-share                 *)
(* (src/src/lib.rs) and of the parts of src/src/main.rs that drive it.     *)
(*                                                                         *)
(* A Rust `String`/`&str` is a sequence of one-character strings; the      *)
(* characters that TLA+ cannot write in a string literal are named:        *)
(* "CR" (\r), "LF" (\n), "TAB" (\t), "NUL" (the zero byte) and "BQ"       *)
(* (the backquote).                                                        *)
(***************************************************************************)
EXTENDS Integers, Sequences, FiniteSets, TLC

VARIABLES
    pc,                     \* position of the running call
    sent,                   \* what the client composed (the fields of its request)
    incoming,               \* bytes the peer sent on the TcpStream
    http_request,           \* HTTPRequest.http_request
    args,                   \* the arguments of the call under way
    given_key_value_pairs,  \* verify_digest_authorization: the parsed HashMap
    verifier_calls,         \* the (nonce, opaque) pairs nonce_opaque_verifier was called with
    md5_calls,              \* the strings md5::compute was called with
    ret,                    \* what the call returned
    partial_file,           \* the opened File: its read pointer and the limit of Take
    header_buf,             \* the header block handed to stream.write
    header_written,         \* how many bytes of header_buf that stream.write accepted
    wire,                   \* bytes the TcpStream accepted, in order
    listener,               \* main: the TcpListener loop of the process
    workers,                \* the threads main spawned, one per accepted connection
    CACHED_THUMBNAILS       \* the Mutex and the HashMap it guards

vars == <<pc, sent, incoming, http_request, args, given_key_value_pairs,
          verifier_calls, md5_calls, ret, partial_file, header_buf,
          header_written, wire, listener, workers, CACHED_THUMBNAILS>>

\* The state of the server process; the specifications of a single call of
\* the engine have no process around it.
ServerVars == <<listener, workers, CACHED_THUMBNAILS>>
NoServer == listener = "none" /\ workers = <<>> /\ CACHED_THUMBNAILS = <<>>

----------------------------------------------------------------------------
(* Characters and bytes                                                    *)

\* ASCII 32..126 in order: Printable[i] has code 31 + i.
Printable ==
    <<" ","!","\"","#","<<",">>%","&","'","(",")","*","+",",","-",".","/",
      "0","1","2","3","4","5","6","7","8","9",":",";","<","=",">","?",
      "@","A","B","C","D","E","F","G","H","I","J","K","L","M","N","O",
      "P","Q","R","S","T","U","V","W","X","Y","Z","[","\\","]","^","_",
      "BQ","a","b","c","d","e","f","g","h","i","j","k","l","m","n","o",
      "p","q","r","s","t","u","v","w","x","y","z","{","|","}","~">>

Chars == {Printable[i] : i \in 1..Len(Printable)} \cup {"NUL", "TAB", "LF", "CR"}

\* The byte value of a character.
Ord ==
    [c \in Chars |->
        CASE c = "NUL" -> 0
          [] c = "TAB" -> 9
          [] c = "LF"  -> 10
          [] c = "CR"  -> 13
          [] OTHER     -> 31 + (CHOOSE i \in 1..Len(Printable) : Printable[i] = c)]

\* The character of a byte value below 128 ("?" stands for the control
\* characters the model never produces).
Chr(b) ==
    CASE b = 0  -> "NUL"
      [] b = 9  -> "TAB"
      [] b = 10 -> "LF"
      [] b = 13 -> "CR"
      [] b >= 32 /\ b <= 126 -> Printable[b - 31]
      [] OTHER -> "?"

Min(S) == CHOOSE x \in S : \A y \in S : x <= y

----------------------------------------------------------------------------
(* Option<T>: None is the empty tuple, Some(x) the one-element tuple.      *)

None == <<>>
Some(x) == <<x>>
IsSome(o) == o # <<>>
Unwrap(o) == o[1]
UnwrapOr(o, d) == IF o = <<>> THEN d ELSE o[1]

----------------------------------------------------------------------------
(* The str methods the engine uses                                         *)

\* str::starts_with
StartsWith(s, p) == Len(s) >= Len(p) /\ SubSeq(s, 1, Len(p)) = p

\* str::ends_with
EndsWith(s, p) == Len(s) >= Len(p) /\ SubSeq(s, Len(s) - Len(p) + 1, Len(s)) = p

\* First index >= from at which p occurs in s, 0 if there is none.
FindFrom(s, p, from) ==
    LET M == {i \in from..(Len(s) - Len(p) + 1) :
                 s[i] = p[1] /\ SubSeq(s, i, i + Len(p) - 1) = p}
    IN IF M = {} THEN 0 ELSE Min(M)

\* str::contains
Contains(s, p) == FindFrom(s, p, 1) # 0

\* str::strip_prefix, str::strip_suffix
StripPrefix(s, p) ==
    IF StartsWith(s, p) THEN Some(SubSeq(s, Len(p) + 1, Len(s))) ELSE None
StripSuffix(s, p) ==
    IF EndsWith(s, p) THEN Some(SubSeq(s, 1, Len(s) - Len(p))) ELSE None

\* str::split(p), collected: the pieces between the non-overlapping
\* occurrences of p, left to right (n occurrences give n + 1 pieces).
RECURSIVE Split(_, _)
Split(s, p) ==
    LET i == FindFrom(s, p, 1)
    IN IF i = 0 THEN <<s>>
       ELSE <<SubSeq(s, 1, i - 1)>> \o Split(SubSeq(s, i + Len(p), Len(s)), p)

\* Iterator::nth (0-based)
Nth(xs, n) == IF n + 1 <= Len(xs) THEN Some(xs[n + 1]) ELSE None

\* Iterator::find(|s| s.starts_with(p))
FindStartsWith(xs, p) ==
    LET M == {i \in 1..Len(xs) : StartsWith(xs[i], p)}
    IN IF M = {} THEN None ELSE Some(xs[Min(M)])

\* char::is_whitespace, for the characters of the model
IsWhitespace(c) == c \in {" ", "TAB", "LF", "CR"}

\* str::trim
Trim(s) ==
    LET K == {i \in 1..Len(s) : ~IsWhitespace(s[i])}
    IN IF K = {} THEN <<>>
       ELSE SubSeq(s, Min(K), CHOOSE j \in K : \A k \in K : k <= j)

RECURSIVE Concat(_)
Concat(xs) == IF xs = <<>> THEN <<>> ELSE Head(xs) \o Concat(Tail(xs))

----------------------------------------------------------------------------
(* Integers                                                                *)

\* TLC's integers are 32 bits wide, so the two unsigned widths of the code
\* are scaled: U64_MAX stands for u64::MAX and U128_MAX for u128::MAX.
U64_MAX == 7
U128_MAX == 255

Digits == <<"0","1","2","3","4","5","6","7","8","9","a","b","c","d","e","f">>
UpperHex == <<"A","B","C","D","E","F">>

\* char::to_digit(radix): the digit value of c, -1 if c is no digit.
ToDigit(c, radix) ==
    LET lo == {i \in 1..Len(Digits) : Digits[i] = c}
        up == {i \in 1..Len(UpperHex) : UpperHex[i] = c}
        v  == IF lo # {} THEN Min(lo) - 1
              ELSE IF up # {} THEN Min(up) + 9
              ELSE -1
    IN IF v >= 0 /\ v < radix THEN v ELSE -1

\* The value of the digit string s, max + 1 once it exceeds max (overflow),
\* -1 if some character is no digit.
RECURSIVE DigitsValue(_, _, _, _)
DigitsValue(s, radix, max, acc) ==
    IF s = <<>> THEN acc
    ELSE LET d == ToDigit(Head(s), radix)
         IN IF d < 0 THEN -1
            ELSE LET v == IF acc > max THEN max + 1 ELSE acc * radix + d
                 IN DigitsValue(Tail(s), radix, max, IF v > max THEN max + 1 ELSE v)

\* <unsigned>::from_str_radix(s, radix).ok(): an optional '+', then at least
\* one digit; None on an empty string, a non-digit or an overflow.
FromStrRadix(s, radix, max) ==
    LET body == IF s # <<>> /\ Head(s) = "+" THEN Tail(s) ELSE s
        v    == DigitsValue(body, radix, max, 0)
    IN IF body = <<>> \/ v < 0 \/ v > max THEN None ELSE Some(v)

\* str::parse::<u64>().ok()
ParseU64(s) == FromStrRadix(s, 10, U64_MAX)

\* u128::from_str_radix(s, 16).ok()
ParseHexU128(s) == FromStrRadix(s, 16, U128_MAX)

\* format!("{}", n) of an unsigned integer
RECURSIVE to_string(_)
to_string(n) ==
    IF n < 10 THEN <<Digits[n + 1]>>
    ELSE to_string(n \div 10) \o <<Digits[(n % 10) + 1]>>

----------------------------------------------------------------------------
(* md5 and Base64                                                          *)

\* format!("{:x}", md5::compute(s)): MD5 is taken as an injective function
\* into lower-case hexadecimal text; the model writes every byte of s as
\* its two hexadecimal digits.
RECURSIVE Md5Hex(_)
Md5Hex(s) ==
    IF s = <<>> THEN <<>>
    ELSE <<Digits[(Ord[Head(s)] \div 16) + 1], Digits[(Ord[Head(s)] % 16) + 1]>>
         \o Md5Hex(Tail(s))

Base64Alphabet ==
    <<"A","B","C","D","E","F","G","H","I","J","K","L","M","N","O","P","Q","R","S","T","U","V","W","X","Y","Z","a","b","c","d","e","f","g","h","i","j","k","l","m","n","o","p","q","r","s","t","u","v","w","x","y","z","0","1","2","3","4","5","6","7","8","9","+","/">>

Sextet(c) ==
    LET M == {i \in 1..Len(Base64Alphabet) : Base64Alphabet[i] = c}
    IN IF M = {} THEN -1 ELSE Min(M) - 1

\* base64::encode of the bytes of s (what a client puts after "Basic ").
RECURSIVE Base64Encode(_)
Base64Encode(s) ==
    LET E(n) == Base64Alphabet[n + 1]
    IN CASE Len(s) = 0 -> <<>>
         [] Len(s) = 1 ->
              LET n == Ord[s[1]] * 16
              IN <<E(n \div 64), E(n % 64), "=", "=">>
         [] Len(s) = 2 ->
              LET n == (Ord[s[1]] * 256 + Ord[s[2]]) * 4
              IN <<E(n \div 4096), E((n \div 64) % 64), E(n % 64), "=">>
         [] OTHER ->
              LET n == Ord[s[1]] * 65536 + Ord[s[2]] * 256 + Ord[s[3]]
              IN <<E(n \div 262144), E((n \div 4096) % 64), E((n \div 64) % 64), E(n % 64)>>
                 \o Base64Encode(SubSeq(s, 4, Len(s)))

\* String::from_utf8(base64::decode(s).ok()?).ok(): the decoded text, None
\* if s is not canonical padded Base64 or a decoded byte is not ASCII.
RECURSIVE Base64Quads(_)
Base64Quads(s) ==
    IF s = <<>> THEN Some(<<>>)
    ELSE
      LET a == Sextet(s[1])
          b == Sextet(s[2])
          c == Sextet(s[3])
          d == Sextet(s[4])
          last == Len(s) = 4
          bytes ==
            CASE a >= 0 /\ b >= 0 /\ c >= 0 /\ d >= 0 ->
                   Some(<<a * 4 + b \div 16, (b % 16) * 16 + c \div 4, (c % 4) * 64 + d>>)
              [] a >= 0 /\ b >= 0 /\ c >= 0 /\ s[4] = "=" /\ last /\ c % 4 = 0 ->
                   Some(<<a * 4 + b \div 16, (b % 16) * 16 + c \div 4>>)
              [] a >= 0 /\ b >= 0 /\ s[3] = "=" /\ s[4] = "=" /\ last /\ b % 16 = 0 ->
                   Some(<<a * 4 + b \div 16>>)
              [] OTHER -> None
          rest == Base64Quads(SubSeq(s, 5, Len(s)))
      IN IF bytes = None \/ rest = None THEN None
         ELSE Some(Unwrap(bytes) \o Unwrap(rest))

Base64DecodeUtf8(s) ==
    IF Len(s) % 4 # 0 THEN None
    ELSE LET q == Base64Quads(s)
         IN IF q = None THEN None
            ELSE LET bs == Unwrap(q)
                 IN IF \E i \in 1..Len(bs) : bs[i] >= 128 THEN None
                    ELSE Some([i \in 1..Len(bs) |-> Chr(bs[i])])

----------------------------------------------------------------------------
(* HTTPRequest                                                             *)

CRLF == <<"CR","LF">>

\* lib.rs:16, the size of request_buffer
REQUEST_BUFFER_SIZE == 1024

\* HTTPRequest::read_from_tcp_stream, the Ok case: one read into the zeroed
\* buffer, then String::from_utf8_lossy of the whole buffer (the identity on
\* the ASCII bytes of the model).
ReadBuffer(bytes) ==
    LET n == IF Len(bytes) < REQUEST_BUFFER_SIZE THEN Len(bytes) ELSE REQUEST_BUFFER_SIZE
    IN SubSeq(bytes, 1, n) \o [i \in 1..(REQUEST_BUFFER_SIZE - n) |-> "NUL"]

get_get_path(req) == UnwrapOr(Nth(Split(req, <<" ">>), 1), <<"/">>)

contains_range_header(req) == Contains(req, <<"R","a","n","g","e",":"," ","b","y","t","e","s","=">>)

IsRangeLine(line) == StartsWith(line, <<"R","a","n","g","e",":"," ","b","y","t","e","s","=">>)

\* A call of get_requested_range either panics (an unwrap or expect fails)
\* or returns (start, end).
Panic(at) == [panic |-> at, start |-> 0, end |-> None]
Range(start, end) == [panic |-> "", start |-> start, end |-> end]

get_requested_range(req) ==
    LET line == FindStartsWith(Split(req, CRLF), <<"R","a","n","g","e",":"," ","b","y","t","e","s","=">>)
    IN IF line = None THEN Panic("lib.rs:47")
       ELSE
         LET range == Unwrap(StripPrefix(Unwrap(line), <<"R","a","n","g","e",":"," ","b","y","t","e","s","=">>))
             start_and_end_index == Split(range, <<"-">>)
             start_index == start_and_end_index[1]
             end_index == Nth(start_and_end_index, 1)
         IN IF end_index = None THEN Panic("lib.rs:52")
            ELSE IF ParseU64(start_index) = None THEN Panic("lib.rs:53")
            ELSE Range(Unwrap(ParseU64(start_index)), ParseU64(Unwrap(end_index)))

get_authorization(req) ==
    LET line == FindStartsWith(Split(req, CRLF), <<"A","u","t","h","o","r","i","z","a","t","i","o","n",":"," ","B","a","s","i","c"," ">>)
    IN IF line = None THEN None
       ELSE
         LET base64_encoded == Unwrap(StripPrefix(Unwrap(line), <<"A","u","t","h","o","r","i","z","a","t","i","o","n",":"," ","B","a","s","i","c"," ">>))
             base64_decoded == Base64DecodeUtf8(base64_encoded)
         IN IF base64_decoded = None THEN None
            ELSE
              LET uname_and_pw == Split(Unwrap(base64_decoded), <<":">>)
              IN IF Nth(uname_and_pw, 1) = None THEN None
                 ELSE Some(<<uname_and_pw[1], uname_and_pw[2]>>)

----------------------------------------------------------------------------
(* The accessors of HTTPRequest applied to requests read from a TcpStream  *)

MaxHeaders == 2

RequestLines ==
    { <<"G","E","T"," ","/","a"," ","H","T","T","P","/","1",".","1">>, <<"P","O","S","T"," ","/","b"," ","H","T","T","P","/","1",".","1">>, <<"G","E","T">>, <<"G","E","T"," ","/","a">>,
      <<"G","E","T"," "," ","/","a"," ","H","T","T","P","/","1",".","1">>, <<>> }

Usernames == { <<"u">>, <<"w","i","k","i">> }
Passwords == { <<"p">>, <<"a",":","b">>, <<>> }

BasicLine(u, p) == <<"A","u","t","h","o","r","i","z","a","t","i","o","n",":"," ","B","a","s","i","c"," ">> \o Base64Encode(u \o <<":">> \o p)

HeaderLines ==
    { <<"H","o","s","t",":"," ","x"," ","y">>, <<"R","a","n","g","e",":"," ","b","y","t","e","s","=","0","-","1">>, <<"R","a","n","g","e",":"," ","b","y","t","e","s","=","2","-">>, <<"R","a","n","g","e",":"," ","b","y","t","e","s","=","3">>,
      <<"X","-","R","a","n","g","e",":"," ","b","y","t","e","s","=","0","-","1">>, <<"R","a","n","g","e",":"," ","b","y","t","e","s","=","0","-","1",",","3","-","4">>,
      <<"A","u","t","h","o","r","i","z","a","t","i","o","n",":"," ","B","a","s","i","c"," ","!","!","!","!">>, <<"A","u","t","h","o","r","i","z","a","t","i","o","n",":"," ","B","a","s","i","c"," ">> \o Base64Encode(<<"n","o","c","o","l","o","n">>) }
    \cup {BasicLine(u, p) : u \in Usernames, p \in Passwords}

HeaderLists == UNION {[1..n -> HeaderLines] : n \in 0..MaxHeaders}

\* What a client sends: the request line, the header lines and the empty
\* line, each ended by CRLF.
RequestText(line, headers) ==
    line \o CRLF \o Concat([i \in 1..Len(headers) |-> headers[i] \o CRLF]) \o CRLF

InitRequest ==
    /\ pc = "connected"
    /\ \E line \in RequestLines, headers \in HeaderLists :
          /\ sent = [line |-> line, headers |-> headers]
          /\ incoming = RequestText(line, headers)
    /\ http_request = <<>>
    /\ args = <<>>
    /\ given_key_value_pairs = <<>>
    /\ verifier_calls = <<>>
    /\ md5_calls = <<>>
    /\ ret = <<>>
    /\ partial_file = <<>>
    /\ header_buf = <<>>
    /\ header_written = 0
    /\ wire = <<>>
    /\ NoServer

read_from_tcp_stream ==
    /\ pc = "connected"
    /\ http_request' = ReadBuffer(incoming)
    /\ pc' = "parsed"
    /\ UNCHANGED <<sent, incoming, args, given_key_value_pairs, verifier_calls,
                   md5_calls, ret, partial_file, header_buf, header_written, wire>>
    /\ UNCHANGED ServerVars

Returns(op, val) ==
    /\ pc' = "returned"
    /\ ret' = [op |-> op, val |-> val]
    /\ UNCHANGED <<sent, incoming, http_request, args, given_key_value_pairs,
                   verifier_calls, md5_calls, partial_file, header_buf,
                   header_written, wire>>
    /\ UNCHANGED ServerVars

call_get_get_path ==
    /\ pc = "parsed"
    /\ Returns("get_get_path", get_get_path(http_request))

call_contains_range_header ==
    /\ pc = "parsed"
    /\ Returns("contains_range_header", contains_range_header(http_request))

\* Called only after contains_range_header returned true (main.rs:135-136,
\* main.rs:208-211; the precondition lib.rs:35-36 documents).
call_get_requested_range ==
    /\ pc = "parsed"
    /\ contains_range_header(http_request)
    /\ Returns("get_requested_range", get_requested_range(http_request))

call_get_authorization ==
    /\ pc = "parsed"
    /\ Returns("get_authorization", get_authorization(http_request))

NextRequest ==
    \/ read_from_tcp_stream
    \/ call_get_get_path
    \/ call_contains_range_header
    \/ call_get_requested_range
    \/ call_get_authorization

SpecRequest == InitRequest /\ [][NextRequest]_vars

----------------------------------------------------------------------------
(* Claims about the accessors of HTTPRequest (SpecRequest)                 *)

IsReturn(op) == pc = "returned" /\ ret.op = op

\* The whitespace-delimited tokens of s.
RECURSIVE Tokens(_)
Tokens(s) ==
    LET K == {i \in 1..Len(s) : ~IsWhitespace(s[i])}
    IN IF K = {} THEN <<>>
       ELSE LET from == Min(K)
                W == {i \in from..Len(s) : IsWhitespace(s[i])}
                to == IF W = {} THEN Len(s) ELSE Min(W) - 1
            IN <<SubSeq(s, from, to)>> \o Tokens(SubSeq(s, to + 1, Len(s)))

FirstLine(req) == Split(req, CRLF)[1]

HasRangeLine(req) ==
    \E i \in 1..Len(Split(req, CRLF)) : IsRangeLine(Split(req, CRLF)[i])

\* C8: for every username u without ':' and every password p, the request
\* whose Basic header is 'Authorization: Basic base64(u:p)' makes
\* get_authorization return Some((u, p)).
C8_BasicRoundTrip ==
    IsReturn("get_authorization") =>
        \A u \in Usernames, p \in Passwords :
            FindStartsWith(Split(incoming, CRLF), <<"A","u","t","h","o","r","i","z","a","t","i","o","n",":"," ","B","a","s","i","c"," ">>) = Some(BasicLine(u, p))
                => ret.val = Some(<<u, p>>)

\* C9: contains_range_header is true exactly if some line of the request
\* begins with "Range: bytes=", and get_requested_range, called after it
\* returned true, always finds that line.
C9_HasRangeIffRangeLine ==
    /\ IsReturn("contains_range_header") => (ret.val <=> HasRangeLine(http_request))
    /\ IsReturn("get_requested_range") => ret.val.panic # "lib.rs:47"

\* C10: get_get_path is the second whitespace-delimited token of the first
\* line of the request, and "/" if the first line has no second token.
C10_PathIsSecondTokenOfFirstLine ==
    IsReturn("get_get_path") =>
        ret.val = UnwrapOr(Nth(Tokens(FirstLine(http_request)), 1), <<"/">>)

\* The Range line get_requested_range reads lists more than one range.
MultiRangeRequested(req) ==
    LET line == FindStartsWith(Split(req, CRLF), <<"R","a","n","g","e",":"," ","b","y","t","e","s","=">>)
    IN line # None /\ Contains(Unwrap(line), <<",">>)

\* C11: for a Range line that lists several ranges ("bytes=0-1,3-4")
\* get_requested_range returns no (start, end) pair that file_response
\* would hand to write_206_partial_file_to_stream as a single range.
C11_MultiRangeNotServedAsSingle ==
    IsReturn("get_requested_range") /\ MultiRangeRequested(http_request) =>
        ret.val.panic # ""

----------------------------------------------------------------------------
(* HTTPResponse::write_206_partial_file_to_stream                          *)

MaxFileLen == 3
MaxShortWrite == 1

\* i64::MAX on the scale of U64_MAX
I64_MAX == U64_MAX \div 2

FileBytes == {"x", "y"}
Files == UNION {[1..n -> FileBytes] : n \in 0..MaxFileLen}
Ranges == {<<start, end>> : start \in 0..U64_MAX,
                            end \in {None} \cup {Some(e) : e \in 0..U64_MAX}}

\* Mutant: the inclusive end taken as exclusive.
TakeLimit_Exclusive(range, build) ==
    IF range[2] = None THEN U64_MAX
    ELSE IF Unwrap(range[2]) >= range[1] THEN Unwrap(range[2]) - range[1]
    ELSE -1

\* lib.rs:349-354, the limit handed to file.take: range_end - range.0 + 1 in
\* u64 arithmetic, which panics on overflow in a build with overflow checks
\* (-1 here) and wraps in a build without; u64::MAX if there is no range end.
TakeLimit(range, build) ==
    IF range[2] = None THEN U64_MAX
    ELSE LET range_end == Unwrap(range[2])
             fits == range_end >= range[1] /\ range_end - range[1] + 1 <= U64_MAX
         IN IF fits THEN range_end - range[1] + 1
            ELSE IF build = "debug" THEN -1
            ELSE (range_end - range[1] + 1) % (U64_MAX + 1)

\* Mutant: the seek left out.
SeekStart_Omitted(range) == 0

\* lib.rs:347, file.seek(SeekFrom::Start(range.0)): the new read pointer, -1
\* for the error lseek gives for an offset above i64::MAX.
SeekStart(range) == IF range[1] > I64_MAX THEN -1 ELSE range[1]

\* The bytes io::copy reads from Take<File>: from the read pointer to the
\* end of the file, at most limit of them.
TakeBytes(file, pos, limit) ==
    LET avail == IF pos >= Len(file) THEN 0 ELSE Len(file) - pos
        n == IF limit < avail THEN limit ELSE avail
    IN SubSeq(file, pos + 1, pos + n)

\* lib.rs:357-360
Header206(range, file_size) ==
    <<"H","T","T","P","/","1",".","1"," ","2","0","6"," ","P","a","r","t","i","a","l"," ","C","o","n","t","e","n","t","CR","LF","A","c","c","e","p","t","-","R","a","n","g","e","s",":"," ","b","y","t","e","s","CR","LF","C","o","n","t","e","n","t","-","R","a","n","g","e",":"," ","b","y","t","e","s"," ">>
    \o to_string(range[1]) \o <<"-">>
    \o (IF range[2] = None THEN <<>> ELSE to_string(Unwrap(range[2])))
    \o <<"/">> \o to_string(file_size) \o <<"CR","LF","CR","LF">>

\* The numbers of bytes one TcpStream::write call may accept of buf.
WriteAccepts(buf) == {k \in 1..Len(buf) : k <= MaxShortWrite \/ k = Len(buf)}

InitStream ==
    /\ \/ /\ pc = "w206_open"
          /\ \E file \in Files, range \in Ranges, build \in {"debug", "release"} :
                args = [file |-> file, range |-> range, build |-> build]
       \/ /\ pc = "w200_open"
          /\ \E file \in Files : args = [file |-> file]
    /\ sent = <<>>
    /\ incoming = <<>>
    /\ http_request = <<>>
    /\ given_key_value_pairs = <<>>
    /\ verifier_calls = <<>>
    /\ md5_calls = <<>>
    /\ ret = <<>>
    /\ partial_file = <<>>
    /\ header_buf = <<>>
    /\ header_written = 0
    /\ wire = <<>>
    /\ NoServer

W206Returns(val) ==
    /\ pc' = "returned"
    /\ ret' = [op |-> "write_206_partial_file_to_stream", val |-> val]

W206Frame == UNCHANGED <<sent, incoming, http_request, args, given_key_value_pairs,
                         verifier_calls, md5_calls, listener, workers,
                         CACHED_THUMBNAILS>>

\* lib.rs:345-354: open the file, seek, wrap it in Take
w206_open ==
    /\ pc = "w206_open"
    /\ \/ W206Returns("Err(open)") /\ UNCHANGED partial_file
       \/ /\ SeekStart(args.range) < 0
          /\ W206Returns("Err(seek)") /\ UNCHANGED partial_file
       \/ /\ SeekStart(args.range) >= 0
          /\ TakeLimit(args.range, args.build) < 0
          /\ W206Returns("panic") /\ UNCHANGED partial_file
       \/ /\ SeekStart(args.range) >= 0
          /\ TakeLimit(args.range, args.build) >= 0
          /\ partial_file' = [pos |-> SeekStart(args.range),
                              limit |-> TakeLimit(args.range, args.build)]
          /\ pc' = "w206_header"
          /\ UNCHANGED ret
    /\ UNCHANGED <<header_buf, header_written, wire>>
    /\ W206Frame

\* Mutant: the status line is written before the file size is queried.
w206_header_StatusLineFirst ==
    /\ pc = "w206_header"
    /\ \/ /\ W206Returns("Err(metadata)")
          /\ wire' = wire \o <<"H","T","T","P","/","1",".","1"," ","2","0","6"," ","P","a","r","t","i","a","l"," ","C","o","n","t","e","n","t","CR","LF">>
          /\ UNCHANGED <<header_buf, header_written>>
       \/ /\ header_buf' = Header206(args.range, Len(args.file))
          /\ \/ /\ W206Returns("Err(write)")
                /\ UNCHANGED <<header_written, wire>>
             \/ \E k \in WriteAccepts(header_buf') :
                   /\ header_written' = k
                   /\ wire' = wire \o SubSeq(header_buf', 1, k)
                   /\ pc' = "w206_copy"
                   /\ UNCHANGED ret
    /\ UNCHANGED partial_file
    /\ W206Frame

\* lib.rs:356-360: query the file size, write the header block with one
\* stream.write call
w206_header ==
    /\ pc = "w206_header"
    /\ \/ /\ W206Returns("Err(metadata)")
          /\ UNCHANGED <<header_buf, header_written, wire>>
       \/ /\ header_buf' = Header206(args.range, Len(args.file))
          /\ \/ /\ W206Returns("Err(write)")
                /\ UNCHANGED <<header_written, wire>>
             \/ \E k \in WriteAccepts(header_buf') :
                   /\ header_written' = k
                   /\ wire' = wire \o SubSeq(header_buf', 1, k)
                   /\ pc' = "w206_copy"
                   /\ UNCHANGED ret
    /\ UNCHANGED partial_file
    /\ W206Frame

\* lib.rs:362: io::copy writes with write_all; the transport may fail after
\* any number of the bytes
w206_copy ==
    /\ pc = "w206_copy"
    /\ LET data == TakeBytes(args.file, partial_file.pos, partial_file.limit)
       IN \/ \E j \in 0..(Len(data) - 1) :
                /\ wire' = wire \o SubSeq(data, 1, j)
                /\ partial_file' = [partial_file EXCEPT !.pos = @ + j]
                /\ W206Returns("Err(copy)")
          \/ /\ wire' = wire \o data
             /\ partial_file' = [partial_file EXCEPT !.pos = @ + Len(data)]
             /\ pc' = "w206_flush"
             /\ UNCHANGED ret
    /\ UNCHANGED <<header_buf, header_written>>
    /\ W206Frame

\* lib.rs:363-364: TcpStream::flush does nothing and returns Ok
w206_flush ==
    /\ pc = "w206_flush"
    /\ W206Returns("Ok")
    /\ UNCHANGED <<partial_file, header_buf, header_written, wire>>
    /\ W206Frame

----------------------------------------------------------------------------
(* HTTPResponse::write_200_ok_file_to_stream                               *)

\* lib.rs:334
Header200(file_size) ==
    <<"H","T","T","P","/","1",".","1"," ","2","0","0"," ","O","K","CR","LF","C","o","n","t","e","n","t","-","L","e","n","g","t","h",":"," ">> \o to_string(file_size) \o <<"CR","LF","CR","LF">>

W200Returns(val) ==
    /\ pc' = "returned"
    /\ ret' = [op |-> "write_200_ok_file_to_stream", val |-> val]

\* lib.rs:331-332: open the file, query its size
w200_open ==
    /\ pc = "w200_open"
    /\ \/ W200Returns("Err(open)") /\ UNCHANGED partial_file
       \/ W200Returns("Err(metadata)") /\ UNCHANGED partial_file
       \/ /\ partial_file' = [pos |-> 0, limit |-> Len(args.file)]
          /\ pc' = "w200_header"
          /\ UNCHANGED ret
    /\ UNCHANGED <<header_buf, header_written, wire>>
    /\ W206Frame

\* lib.rs:334: write the header block with one stream.write call
w200_header ==
    /\ pc = "w200_header"
    /\ header_buf' = Header200(Len(args.file))
    /\ \/ /\ W200Returns("Err(write)")
          /\ UNCHANGED <<header_written, wire>>
       \/ \E k \in WriteAccepts(header_buf') :
             /\ header_written' = k
             /\ wire' = wire \o SubSeq(header_buf', 1, k)
             /\ pc' = "w200_copy"
             /\ UNCHANGED ret
    /\ UNCHANGED partial_file
    /\ W206Frame

\* lib.rs:336: io::copy of the whole file
w200_copy ==
    /\ pc = "w200_copy"
    /\ LET data == TakeBytes(args.file, partial_file.pos, partial_file.limit)
       IN \/ \E j \in 0..(Len(data) - 1) :
                /\ wire' = wire \o SubSeq(data, 1, j)
                /\ partial_file' = [partial_file EXCEPT !.pos = @ + j]
                /\ W200Returns("Err(copy)")
          \/ /\ wire' = wire \o data
             /\ partial_file' = [partial_file EXCEPT !.pos = @ + Len(data)]
             /\ pc' = "w200_flush"
             /\ UNCHANGED ret
    /\ UNCHANGED <<header_buf, header_written>>
    /\ W206Frame

\* lib.rs:337-338: TcpStream::flush does nothing and returns Ok
w200_flush ==
    /\ pc = "w200_flush"
    /\ W200Returns("Ok")
    /\ UNCHANGED <<partial_file, header_buf, header_written, wire>>
    /\ W206Frame

NextStream ==
    \/ w206_open
    \/ w206_header
    \/ w206_copy
    \/ w206_flush
    \/ w200_open
    \/ w200_header
    \/ w200_copy
    \/ w200_flush

SpecStream == InitStream /\ [][NextStream]_vars

----------------------------------------------------------------------------
(* Claims about write_206_partial_file_to_stream (SpecStream)              *)

\* The body bytes on the wire: what follows the accepted header bytes.
BodyOnWire == SubSeq(wire, header_written + 1, Len(wire))

\* The fields of the Content-Range line of a header block:
\* <<start, end, total>> as text.
ContentRangeFields(h) ==
    LET line == Unwrap(FindStartsWith(Split(h, CRLF), <<"C","o","n","t","e","n","t","-","R","a","n","g","e",":"," ","b","y","t","e","s"," ">>))
        value == Unwrap(StripPrefix(line, <<"C","o","n","t","e","n","t","-","R","a","n","g","e",":"," ","b","y","t","e","s"," ">>))
        range_total == Split(value, <<"/">>)
        start_end == Split(range_total[1], <<"-">>)
    IN <<start_end[1], start_end[2], range_total[2]>>

W206Ok == IsReturn("write_206_partial_file_to_stream") /\ ret.val = "Ok"

\* C6: for a range (a, Some(b)) with a <= b < fileSize the streamed body is
\* the b - a + 1 bytes of the file at offsets a..b and the Content-Range
\* header reads "bytes a-b/fileSize".
C6_RangeBodyAndHeader ==
    W206Ok /\ args.range[2] # None =>
        LET a == args.range[1]
            b == Unwrap(args.range[2])
            f == ContentRangeFields(header_buf)
        IN a <= b /\ b < Len(args.file) =>
              /\ Len(BodyOnWire) = b - a + 1
              /\ \A i \in 1..Len(BodyOnWire) : BodyOnWire[i] = args.file[a + i]
              /\ ParseU64(f[1]) = Some(a)
              /\ ParseU64(f[2]) = Some(b)
              /\ ParseU64(f[3]) = Some(Len(args.file))

C6_Witness ==
    /\ W206Ok
    /\ args.range = <<1, Some(2)>>
    /\ Len(args.file) = 3
    /\ BodyOnWire = SubSeq(args.file, 2, 3)

\* C7: for a range (a, None) with a <= fileSize the streamed body is the
\* fileSize - a bytes of the file from offset a on and the Content-Range
\* header reads "bytes a-/fileSize", its end field empty.
C7_OpenRangeBodyAndHeader ==
    W206Ok /\ args.range[2] = None =>
        LET a == args.range[1]
            f == ContentRangeFields(header_buf)
        IN a <= Len(args.file) =>
              /\ Len(BodyOnWire) = Len(args.file) - a
              /\ \A i \in 1..Len(BodyOnWire) : BodyOnWire[i] = args.file[a + i]
              /\ ParseU64(f[1]) = Some(a)
              /\ f[2] = <<>>
              /\ ParseU64(f[3]) = Some(Len(args.file))

C7_Witness ==
    /\ W206Ok
    /\ args.range = <<1, None>>
    /\ Len(args.file) = 3
    /\ BodyOnWire = SubSeq(args.file, 2, 3)
    /\ header_written < Len(header_buf)

StreamReturned ==
    pc = "returned"
    /\ ret.op \in {"write_200_ok_file_to_stream", "write_206_partial_file_to_stream"}

\* C16: when a streaming writer returns the error of the open, the seek or
\* the size query, nothing has been handed to or accepted by the transport.
C16_FileErrorsBeforeFirstByte ==
    StreamReturned /\ ret.val \in {"Err(open)", "Err(seek)", "Err(metadata)"} =>
        wire = <<>> /\ header_buf = <<>> /\ header_written = 0

\* The size query of the 206 writer fails after the file was opened.
C16_Witness ==
    /\ IsReturn("write_206_partial_file_to_stream") /\ ret.val = "Err(metadata)"
    /\ partial_file # <<>>
    /\ wire = <<>>

\* C20: a streaming writer that returns Ok has put the whole header block
\* on the transport, in order and before the first byte of the body.
C20_OkImpliesWholeHeaderOnWire ==
    StreamReturned /\ ret.val = "Ok" =>
        /\ header_written = Len(header_buf)
        /\ StartsWith(wire, header_buf)

----------------------------------------------------------------------------
(* HTTPRequest::verify_digest_authorization                                *)

\* HashMap::get
Get(map, key) == IF key \in DOMAIN map THEN Some(map[key]) ELSE None

\* lib.rs:136: the value without its surrounding quotes, if it has both
StripQuotes(value) ==
    LET v == StripPrefix(value, <<"\"">>)
        w == IF v = None THEN None ELSE StripSuffix(Unwrap(v), <<"\"">>)
    IN UnwrapOr(w, value)

\* lib.rs:134-136: one trimmed piece of the header to its (key, value)
KeyValue(key_value_pair) ==
    LET kv_pair == Trim(key_value_pair)
        key == UnwrapOr(Nth(Split(kv_pair, <<"=">>), 0), <<>>)
        value == UnwrapOr(Nth(Split(kv_pair, <<"=">>), 1), <<>>)
    IN <<key, StripQuotes(value)>>

\* collect::<HashMap>: a later pair replaces an earlier one of the same key
RECURSIVE Collect(_, _)
Collect(pairs, map) ==
    IF pairs = <<>> THEN map
    ELSE LET kv == KeyValue(Head(pairs))
         IN Collect(Tail(pairs),
                    [k \in DOMAIN map \cup {kv[1]} |->
                        IF k = kv[1] THEN kv[2] ELSE map[k]])

\* lib.rs:130-137
ParseDigestPairs(req) ==
    Collect(Split(Unwrap(Nth(Split(req, <<"A","u","t","h","o","r","i","z","a","t","i","o","n",":"," ","D","i","g","e","s","t"," ">>), 1)), <<",">>), <<>>)

RequiredKeys == << <<"u","s","e","r","n","a","m","e">>, <<"r","e","a","l","m">>, <<"n","o","n","c","e">>, <<"u","r","i">>, <<"r","e","s","p","o","n","s","e">>, <<"o","p","a","q","u","e">> >>

\* lib.rs:140-148: the first required key, in the order of the lookups,
\* that the map lacks (0 if it has them all)
FirstMissing(map) ==
    LET M == {i \in 1..Len(RequiredKeys) : RequiredKeys[i] \notin DOMAIN map}
    IN IF M = {} THEN 0 ELSE Min(M)

\* Mutant: the RFC 2069 form of the response whatever the client sent.
Md5Inputs_LegacyOnly(map, username, password, realm, path) ==
    <<username \o <<":">> \o realm \o <<":">> \o password, <<"G","E","T",":">> \o path,
      Md5Hex(username \o <<":">> \o realm \o <<":">> \o password) \o <<":">> \o map[<<"n","o","n","c","e">>]
        \o <<":">> \o Md5Hex(<<"G","E","T",":">> \o path)>>

\* lib.rs:165-179: the strings md5::compute is called with, in order; the
\* last one is the text of the expected response. Two calls only when qop,
\* nc and cnonce are partially given.
Md5Inputs(map, username, password, realm, path) ==
    LET ha1 == username \o <<":">> \o realm \o <<":">> \o password
        ha2 == <<"G","E","T",":">> \o path
        n == Cardinality({ <<"q","o","p">>, <<"n","c">>, <<"c","n","o","n","c","e">> } \cap DOMAIN map)
    IN IF n = 3 THEN
          <<ha1, ha2,
            Md5Hex(ha1) \o <<":">> \o map[<<"n","o","n","c","e">>] \o <<":">> \o map[<<"n","c">>] \o <<":">>
              \o map[<<"c","n","o","n","c","e">>] \o <<":">> \o map[<<"q","o","p">>] \o <<":">> \o Md5Hex(ha2)>>
       ELSE IF n = 0 THEN
          <<ha1, ha2, Md5Hex(ha1) \o <<":">> \o map[<<"n","o","n","c","e">>] \o <<":">> \o Md5Hex(ha2)>>
       ELSE <<ha1, ha2>>

----------------------------------------------------------------------------
(* verify_digest_authorization applied to the requests of Digest clients   *)

MaxCounter == 2

\* The nonce counter as clients write it: eight hexadecimal digits.
Hex8(n) ==
    <<"0","0","0","0","0","0">> \o <<Digits[(n \div 16) + 1], Digits[(n % 16) + 1]>>

\* RFC 2617, 3.2.2.1: the request-digest with qop, and RFC 2069's without.
RFC2617Response(username, realm, password, method, uri, nonce, nc, cnonce, qop) ==
    Md5Hex(Md5Hex(username \o <<":">> \o realm \o <<":">> \o password)
           \o <<":">> \o nonce \o <<":">> \o nc \o <<":">> \o cnonce \o <<":">> \o qop \o <<":">>
           \o Md5Hex(method \o <<":">> \o uri))

RFC2069Response(username, realm, password, method, uri, nonce) ==
    Md5Hex(Md5Hex(username \o <<":">> \o realm \o <<":">> \o password)
           \o <<":">> \o nonce \o <<":">> \o Md5Hex(method \o <<":">> \o uri))

\* s with its last character changed
MutateLast(s) ==
    [s EXCEPT ![Len(s)] = IF @ = "0" THEN "1" ELSE "0"]

\* What the server expects (the arguments of the call).
ExpectedUsername == <<"u">>
ExpectedPassword == <<"p">>
ExpectedRealm == <<"r">>
RequestPath == <<"/","a">>

\* The response field a client sends: computed by RFC 2617 or RFC 2069 for
\* the credentials the server expects and the path of the request line,
\* with the method "GET" ("correct"), with another password ("wrong_pw"),
\* with the method of the request line ("own_method"), or the correct one
\* with one character changed ("mutated").
ClientResponse(kind, variant, method, nonce, nc, cnonce, qop) ==
    LET pw == IF variant = "wrong_pw" THEN <<"q">> ELSE ExpectedPassword
        m == IF variant = "own_method" THEN method ELSE <<"G","E","T">>
        r == IF kind = "rfc2617"
             THEN RFC2617Response(ExpectedUsername, ExpectedRealm, pw, m, RequestPath,
                                  nonce, UnwrapOr(nc, <<>>), UnwrapOr(cnonce, <<>>),
                                  UnwrapOr(qop, <<>>))
             ELSE RFC2069Response(ExpectedUsername, ExpectedRealm, pw, m, RequestPath, nonce)
    IN IF variant = "mutated" THEN MutateLast(r) ELSE r

Quoted(s) == <<"\"">> \o s \o <<"\"">>

\* The parameters of the Authorization header in the order of lib.rs:114-122,
\* without the keys the client leaves out.
DigestParams(c) ==
    LET P(key, value) == IF key \in c.omit THEN <<>> ELSE <<key \o <<"=">> \o value>>
        O(key, value, quote) ==
            IF value = None THEN <<>>
            ELSE <<key \o <<"=">> \o (IF quote THEN Quoted(Unwrap(value)) ELSE Unwrap(value))>>
    IN P(<<"u","s","e","r","n","a","m","e">>, Quoted(c.username)) \o P(<<"r","e","a","l","m">>, Quoted(c.realm))
       \o P(<<"n","o","n","c","e">>, Quoted(c.nonce)) \o P(<<"u","r","i">>, Quoted(c.uri))
       \o O(<<"q","o","p">>, c.qop, FALSE) \o O(<<"n","c">>, c.nc, FALSE) \o O(<<"c","n","o","n","c","e">>, c.cnonce, TRUE)
       \o P(<<"r","e","s","p","o","n","s","e">>, Quoted(c.response)) \o P(<<"o","p","a","q","u","e">>, Quoted(c.opaque))

RECURSIVE Join(_, _)
Join(xs, sep) ==
    IF Len(xs) = 0 THEN <<>>
    ELSE IF Len(xs) = 1 THEN xs[1]
    ELSE xs[1] \o sep \o Join(Tail(xs), sep)

DigestRequestText(c) ==
    c.method \o <<" ">> \o c.path \o <<" ","H","T","T","P","/","1",".","1","CR","LF","H","o","s","t",":"," ","l","o","c","a","l","h","o","s","t","CR","LF">>
    \o (IF c.digest
        THEN <<"A","u","t","h","o","r","i","z","a","t","i","o","n",":"," ","D","i","g","e","s","t"," ">> \o Join(DigestParams(c), <<","," ">>) \o CRLF
        ELSE <<>>)
    \o CRLF

NcChoices ==
    {[nc |-> None, nc_num |-> -1], [nc |-> Some(<<"z","z">>), nc_num |-> -1]}
    \cup {[nc |-> Some(Hex8(n)), nc_num |-> n] : n \in 0..(MaxCounter + 1)}

Client(method, id, nonce, uri, qop, n, cnonce, kind, variant, omit, digest) ==
    [method |-> method, path |-> RequestPath, digest |-> digest, omit |-> omit,
     username |-> id[1], realm |-> id[2], nonce |-> nonce, uri |-> uri,
     qop |-> qop, nc |-> n.nc, nc_num |-> n.nc_num, cnonce |-> cnonce,
     response |-> ClientResponse(kind, variant, method, nonce, n.nc, cnonce, qop),
     opaque |-> <<"o">>]

Clients ==
    {Client(method, id, nonce, uri, qop, n, cnonce, kind, variant, {}, TRUE) :
        method \in { <<"G","E","T">>, <<"P","O","S","T">> },
        id \in { <<ExpectedUsername, ExpectedRealm>>, << <<"x">>, ExpectedRealm>>,
                 <<ExpectedUsername, <<"s">>>> },
        nonce \in { <<"n">>, <<"m">> },
        uri \in { RequestPath, <<"/","b">> },
        qop \in {None, Some(<<"a","u","t","h">>)},
        n \in NcChoices,
        cnonce \in {None, Some(<<"c">>)},
        kind \in {"rfc2617", "rfc2069"},
        variant \in {"correct", "wrong_pw", "own_method", "mutated"}}
    \cup
    {Client(<<"G","E","T">>, id, <<"n">>, RequestPath,
            Some(<<"a","u","t","h">>), [nc |-> Some(Hex8(1)), nc_num |-> 1], Some(<<"c">>),
            "rfc2617", "correct", omit, TRUE) :
        id \in { <<ExpectedUsername, ExpectedRealm>>, << <<"x">>, ExpectedRealm>> },
        omit \in {{RequiredKeys[i]} : i \in 1..Len(RequiredKeys)}}
    \cup
    {Client(<<"G","E","T">>, <<ExpectedUsername, ExpectedRealm>>, <<"n">>, RequestPath,
            None, [nc |-> None, nc_num |-> -1], None, "rfc2069", "correct", {}, FALSE)}

InitDigest ==
    /\ pc = "vda_start"
    /\ sent \in Clients
    /\ incoming = <<>>
    /\ http_request = DigestRequestText(sent)
    /\ \E last_counter \in {None} \cup {Some(n) : n \in 0..MaxCounter} :
          args = [username |-> ExpectedUsername, password |-> ExpectedPassword,
                  realm |-> ExpectedRealm, verifier |-> {<< <<"n">>, <<"o">> >>},
                  last_counter |-> last_counter]
    /\ given_key_value_pairs = <<>>
    /\ verifier_calls = <<>>
    /\ md5_calls = <<>>
    /\ ret = <<>>
    /\ partial_file = <<>>
    /\ header_buf = <<>>
    /\ header_written = 0
    /\ wire = <<>>
    /\ NoServer

VdaReturns(val) ==
    /\ pc' = "returned"
    /\ ret' = [op |-> "verify_digest_authorization", val |-> val]

VdaGoto(next) == pc' = next /\ UNCHANGED ret

VdaFrame == UNCHANGED <<sent, incoming, http_request, args, partial_file,
                        header_buf, header_written, wire, listener, workers,
                        CACHED_THUMBNAILS>>

\* lib.rs:125-127
vda_start ==
    /\ pc = "vda_start"
    /\ IF ~Contains(http_request, <<"A","u","t","h","o","r","i","z","a","t","i","o","n",":"," ","D","i","g","e","s","t"," ">>)
       THEN VdaReturns("Ok(false)")
       ELSE VdaGoto("vda_parse")
    /\ UNCHANGED <<given_key_value_pairs, verifier_calls, md5_calls>>
    /\ VdaFrame

\* Mutant: a missing required key is answered like a wrong credential.
vda_parse_MissingIsFalse ==
    /\ pc = "vda_parse"
    /\ given_key_value_pairs' = ParseDigestPairs(http_request)
    /\ IF FirstMissing(given_key_value_pairs') # 0
       THEN VdaReturns("Ok(false)")
       ELSE VdaGoto("vda_check_identity")
    /\ UNCHANGED <<verifier_calls, md5_calls>>
    /\ VdaFrame

\* lib.rs:129-148
vda_parse ==
    /\ pc = "vda_parse"
    /\ given_key_value_pairs' = ParseDigestPairs(http_request)
    /\ IF FirstMissing(given_key_value_pairs') # 0
       THEN VdaReturns("Err(missing)")
       ELSE VdaGoto("vda_check_identity")
    /\ UNCHANGED <<verifier_calls, md5_calls>>
    /\ VdaFrame

\* Mutant: the realm is not compared.
vda_check_identity_UsernameOnly ==
    /\ pc = "vda_check_identity"
    /\ IF given_key_value_pairs[<<"u","s","e","r","n","a","m","e">>] # args.username
       THEN VdaReturns("Ok(false)")
       ELSE VdaGoto("vda_check_nonce")
    /\ UNCHANGED <<given_key_value_pairs, verifier_calls, md5_calls>>
    /\ VdaFrame

\* lib.rs:151-153
vda_check_identity ==
    /\ pc = "vda_check_identity"
    /\ IF \/ given_key_value_pairs[<<"u","s","e","r","n","a","m","e">>] # args.username
          \/ given_key_value_pairs[<<"r","e","a","l","m">>] # args.realm
       THEN VdaReturns("Ok(false)")
       ELSE VdaGoto("vda_check_nonce")
    /\ UNCHANGED <<given_key_value_pairs, verifier_calls, md5_calls>>
    /\ VdaFrame

\* lib.rs:154-156
vda_check_nonce ==
    /\ pc = "vda_check_nonce"
    /\ LET call == <<given_key_value_pairs[<<"n","o","n","c","e">>], given_key_value_pairs[<<"o","p","a","q","u","e">>]>>
       IN /\ verifier_calls' = Append(verifier_calls, call)
          /\ IF call \notin args.verifier
             THEN VdaReturns("Ok(false)")
             ELSE VdaGoto("vda_check_uri")
    /\ UNCHANGED <<given_key_value_pairs, md5_calls>>
    /\ VdaFrame

\* Mutant: the uri is not compared with the request path.
vda_check_uri_Skipped ==
    /\ pc = "vda_check_uri"
    /\ VdaGoto("vda_check_counter")
    /\ UNCHANGED <<given_key_value_pairs, verifier_calls, md5_calls>>
    /\ VdaFrame

\* lib.rs:157-159
vda_check_uri ==
    /\ pc = "vda_check_uri"
    /\ IF given_key_value_pairs[<<"u","r","i">>] # get_get_path(http_request)
       THEN VdaReturns("Ok(false)")
       ELSE VdaGoto("vda_check_counter")
    /\ UNCHANGED <<given_key_value_pairs, verifier_calls, md5_calls>>
    /\ VdaFrame

\* Mutant: a counter equal to the last one is let through.
CounterCheck_NotStrict(last_counter, given_nc) ==
    IF last_counter = None THEN ""
    ELSE IF given_nc = None THEN "Ok(false)"
    ELSE IF ParseHexU128(Unwrap(given_nc)) = None THEN "Err(nc)"
    ELSE IF Unwrap(ParseHexU128(Unwrap(given_nc))) < Unwrap(last_counter) THEN "Ok(false)"
    ELSE ""

\* lib.rs:160-162: "" if the request passes, else what is returned
CounterCheck(last_counter, given_nc) ==
    IF last_counter = None THEN ""
    ELSE IF given_nc = None THEN "Ok(false)"
    ELSE IF ParseHexU128(Unwrap(given_nc)) = None THEN "Err(nc)"
    ELSE IF Unwrap(ParseHexU128(Unwrap(given_nc))) <= Unwrap(last_counter) THEN "Ok(false)"
    ELSE ""

vda_check_counter ==
    /\ pc = "vda_check_counter"
    /\ LET r == CounterCheck(args.last_counter, Get(given_key_value_pairs, <<"n","c">>))
       IN IF r # "" THEN VdaReturns(r) ELSE VdaGoto("vda_compute")
    /\ UNCHANGED <<given_key_value_pairs, verifier_calls, md5_calls>>
    /\ VdaFrame

\* lib.rs:164-183
vda_compute ==
    /\ pc = "vda_compute"
    /\ md5_calls' = Md5Inputs(given_key_value_pairs, args.username, args.password,
                              args.realm, get_get_path(http_request))
    /\ IF Len(md5_calls') < 3
       THEN VdaReturns("Err(mix)")
       ELSE LET expected_response_hex == Md5Hex(md5_calls'[3])
            IN IF given_key_value_pairs[<<"r","e","s","p","o","n","s","e">>] = expected_response_hex
               THEN VdaReturns("Ok(true)")
               ELSE VdaReturns("Ok(false)")
    /\ UNCHANGED <<given_key_value_pairs, verifier_calls>>
    /\ VdaFrame

NextDigest ==
    \/ vda_start
    \/ vda_parse
    \/ vda_check_identity
    \/ vda_check_nonce
    \/ vda_check_uri
    \/ vda_check_counter
    \/ vda_compute

SpecDigest == InitDigest /\ [][NextDigest]_vars

----------------------------------------------------------------------------
(* Claims about verify_digest_authorization (SpecDigest)                   *)

VdaReturned == IsReturn("verify_digest_authorization")

\* The client sent an Authorization: Digest header with all required keys.
CompleteDigest == sent.digest /\ sent.omit = {}

IdentityMatches == sent.username = args.username /\ sent.realm = args.realm

VerifierAccepts == <<sent.nonce, sent.opaque>> \in args.verifier

\* How many of qop, nc and cnonce the client sent.
Rfc2617Fields == Cardinality({k \in {"qop", "nc", "cnonce"} : sent[k] # None})

\* The counter check of step 6 lets the request through.
CounterPasses ==
    \/ args.last_counter = None
    \/ sent.nc_num > Unwrap(args.last_counter)

\* The one response RFC 2617 (all of qop, nc, cnonce sent) or RFC 2069 (none
\* sent) prescribes for the expected credentials, method GET and the path.
PrescribedResponse ==
    IF Rfc2617Fields = 3
    THEN RFC2617Response(args.username, args.realm, args.password, <<"G","E","T">>, sent.path,
                         sent.nonce, Unwrap(sent.nc), Unwrap(sent.cnonce), Unwrap(sent.qop))
    ELSE RFC2069Response(args.username, args.realm, args.password, <<"G","E","T">>, sent.path,
                         sent.nonce)

\* C1: Ok(true) is returned only if the given username and realm are the
\* expected ones, the verifier was asked about the given nonce and opaque and
\* said yes, the given uri is the request path and the given response is the
\* hexadecimal digest the engine computed.
C1_OkTrueOnlyIfEveryCheckHolds ==
    VdaReturned /\ ret.val = "Ok(true)" =>
        /\ CompleteDigest
        /\ IdentityMatches
        /\ <<sent.nonce, sent.opaque>> \in {verifier_calls[i] : i \in 1..Len(verifier_calls)}
        /\ VerifierAccepts
        /\ sent.uri = sent.path
        /\ Len(md5_calls) = 3
        /\ sent.response = Md5Hex(md5_calls[3])

C1_Witness ==
    /\ VdaReturned /\ ret.val = "Ok(true)"
    /\ args.last_counter = None
    /\ Rfc2617Fields = 0

C3_PartialMixAlwaysErr ==
    VdaReturned /\ CompleteDigest /\ Rfc2617Fields \in {1, 2} =>
        ret.val \notin {"Ok(true)", "Ok(false)"}

\* C4: a request with all required keys whose username or realm is not the
\* expected one gets Ok(false) before the verifier is called and before
\* anything is hashed.
C4_IdentityMismatchRejectedFirst ==
    VdaReturned /\ CompleteDigest /\ ~IdentityMatches =>
        /\ ret.val = "Ok(false)"
        /\ verifier_calls = <<>>
        /\ md5_calls = <<>>

C4_Witness ==
    /\ VdaReturned /\ CompleteDigest
    /\ sent.username = args.username /\ sent.realm # args.realm
    /\ VerifierAccepts
    /\ sent.response = PrescribedResponse
    /\ ret.val = "Ok(false)"

ErrValues == {"Err(missing)", "Err(nc)", "Err(mix)"}

NcUnparsable == sent.nc # None /\ ParseHexU128(Unwrap(sent.nc)) = None

\* C14: a request whose nc cannot be parsed as a hexadecimal counter gets
\* Err, whatever last_counter and the other fields are.
C14_UnparsableNcIsErr ==
    VdaReturned /\ CompleteDigest /\ NcUnparsable => ret.val \in ErrValues

\* Everything but the counter is right: last_counter = N and nc <= N.
NonMonotonicCounter ==
    /\ CompleteDigest /\ IdentityMatches /\ VerifierAccepts /\ sent.uri = sent.path
    /\ args.last_counter # None
    /\ sent.nc_num >= 0 /\ sent.nc_num <= Unwrap(args.last_counter)

\* C15: a counter that does not increase is answered with an error value,
\* never with Ok(false), the value lib.rs:183 returns for a wrong response.
C15_ReplayIsExplicitError ==
    VdaReturned /\ NonMonotonicCounter =>
        ret.val \in ErrValues /\ ret.val # "Ok(false)"

----------------------------------------------------------------------------
(* verify_digest_authorization applied to requests in which text follows   *)
(* the Authorization line                                                  *)

\* What follows the Authorization line in HTTPRequest.http_request: only the
\* empty line ("none"), a further header line ("header"), or the zero bytes
\* of the buffer of read_from_tcp_stream ("buffer").
Trailers == {"none", "header", "buffer"}

\* The request of DigestRequestText with the Host line after the
\* Authorization line.
DigestFirstRequestText(c) ==
    c.method \o <<" ">> \o c.path \o <<" ","H","T","T","P","/","1",".","1","CR","LF">>
    \o <<"A","u","t","h","o","r","i","z","a","t","i","o","n",":"," ","D","i","g","e","s","t"," ">> \o Join(DigestParams(c), <<","," ">>) \o CRLF
    \o <<"H","o","s","t",":"," ","l","o","c","a","l","h","o","s","t","CR","LF">> \o CRLF

WireClients ==
    {c \in Clients :
        /\ c.method = <<"G","E","T">> /\ c.digest
        /\ c.username = ExpectedUsername /\ c.realm = ExpectedRealm
        /\ c.nonce = <<"n">> /\ c.uri = RequestPath
        /\ (c.qop = None) = (c.nc = None) /\ (c.nc = None) = (c.cnonce = None)
        /\ c.nc \in {None, Some(Hex8(1))}
        /\ c.response \in {ClientResponse(kind, "correct", c.method, c.nonce, c.nc,
                                          c.cnonce, c.qop) : kind \in {"rfc2617", "rfc2069"}}}

InitDigestWire ==
    /\ pc = "vda_start"
    /\ \E c \in WireClients, trailer \in Trailers :
          /\ sent = [trailer |-> trailer] @@ c
          /\ incoming = IF trailer = "buffer" THEN DigestRequestText(c) ELSE <<>>
          /\ http_request = CASE trailer = "none" -> DigestRequestText(c)
                              [] trailer = "header" -> DigestFirstRequestText(c)
                              [] trailer = "buffer" -> ReadBuffer(DigestRequestText(c))
    /\ \E last_counter \in {None} \cup {Some(n) : n \in 0..MaxCounter} :
          args = [username |-> ExpectedUsername, password |-> ExpectedPassword,
                  realm |-> ExpectedRealm, verifier |-> {<< <<"n">>, <<"o">> >>},
                  last_counter |-> last_counter]
    /\ given_key_value_pairs = <<>>
    /\ verifier_calls = <<>>
    /\ md5_calls = <<>>
    /\ ret = <<>>
    /\ partial_file = <<>>
    /\ header_buf = <<>>
    /\ header_written = 0
    /\ wire = <<>>
    /\ NoServer

SpecDigestWire == InitDigestWire /\ [][NextDigest]_vars

\* The key=value pairs on the Authorization line of client c, the values
\* without their quotes.
LinePairs(c) ==
    LET required == {RequiredKeys[i] : i \in 1..Len(RequiredKeys)} \ c.omit
        optional == {k \in {<<"q","o","p">>, <<"n","c">>, <<"c","n","o","n","c","e">>} :
                        \/ k = <<"q","o","p">> /\ c.qop # None
                        \/ k = <<"n","c">> /\ c.nc # None
                        \/ k = <<"c","n","o","n","c","e">> /\ c.cnonce # None}
    IN [k \in required \cup optional |->
           CASE k = <<"u","s","e","r","n","a","m","e">> -> c.username
             [] k = <<"r","e","a","l","m">> -> c.realm
             [] k = <<"n","o","n","c","e">> -> c.nonce
             [] k = <<"u","r","i">> -> c.uri
             [] k = <<"r","e","s","p","o","n","s","e">> -> c.response
             [] k = <<"o","p","a","q","u","e">> -> c.opaque
             [] k = <<"q","o","p">> -> Unwrap(c.qop)
             [] k = <<"n","c">> -> Unwrap(c.nc)
             [] k = <<"c","n","o","n","c","e">> -> Unwrap(c.cnonce)]

\* C12: the parsed mapping holds exactly the key=value pairs of the
\* Authorization: Digest line, the values without their quotes, whatever
\* text follows that line; the verifier is called with the nonce and the
\* opaque of the line.
C12_PairsAreThoseOfTheLine ==
    /\ given_key_value_pairs # <<>> => given_key_value_pairs = LinePairs(sent)
    /\ \A i \in 1..Len(verifier_calls) : verifier_calls[i] = <<sent.nonce, sent.opaque>>

----------------------------------------------------------------------------
(* std::path::Path and percent_decode_str as handle_connection uses them   *)

\* A path is its text. Its components: "/" first if the path is absolute,
\* then the names between the separators; empty names are skipped, and so
\* is every "." but one the path begins with.
IsAbsolute(p) == p # <<>> /\ p[1] = "/"

RECURSIVE Names(_, _)
Names(parts, first) ==
    IF parts = <<>> THEN <<>>
    ELSE (IF Head(parts) = <<>> \/ (Head(parts) = <<".">> /\ ~first)
          THEN <<>> ELSE <<Head(parts)>>)
         \o Names(Tail(parts), FALSE)

Components(p) ==
    (IF IsAbsolute(p) THEN << <<"/">> >> ELSE <<>>) \o Names(Split(p, <<"/">>), TRUE)

\* The text of a sequence of components.
PathText(cs) ==
    IF cs # <<>> /\ cs[1] = <<"/">> THEN <<"/">> \o Join(Tail(cs), <<"/">>)
    ELSE Join(cs, <<"/">>)

\* All components but the last, None if there is none or the last is the root
AllButLast(cs) ==
    IF cs = <<>> \/ cs[Len(cs)] = <<"/">> THEN None
    ELSE Some(PathText(SubSeq(cs, 1, Len(cs) - 1)))

\* Path::parent: None for a path that ends in the root or is empty
PathParent(p) == AllButLast(Components(p))

\* Path::join: an absolute path replaces the base
PathJoin(base, path) ==
    IF IsAbsolute(path) \/ base = <<>> THEN path
    ELSE IF EndsWith(base, <<"/">>) THEN base \o path
    ELSE base \o <<"/">> \o path

\* The components cs after the components bs, None if bs does not begin cs
After(cs, bs) ==
    IF Len(bs) <= Len(cs) /\ SubSeq(cs, 1, Len(bs)) = bs
    THEN Some(SubSeq(cs, Len(bs) + 1, Len(cs)))
    ELSE None

\* Path::strip_prefix(base).ok(): the components of path after those of
\* base, None if the components of base do not begin those of path
PathStripPrefix(path, base) == After(Components(path), Components(base))

\* percent_decode_str: the bytes of s, "%" and two hexadecimal digits
\* replaced by the byte they name
RECURSIVE PercentDecode(_)
PercentDecode(s) ==
    IF s = <<>> THEN <<>>
    ELSE IF /\ s[1] = "%" /\ Len(s) >= 3
            /\ ToDigit(s[2], 16) >= 0 /\ ToDigit(s[3], 16) >= 0
         THEN <<ToDigit(s[2], 16) * 16 + ToDigit(s[3], 16)>>
              \o PercentDecode(SubSeq(s, 4, Len(s)))
    ELSE <<Ord[s[1]]>> \o PercentDecode(Tail(s))

\* PercentDecode::decode_utf8().ok() for the bytes of the model: a byte of
\* 128 or more is not the start of a sequence the model's requests complete.
DecodeUtf8(bytes) ==
    IF \E i \in 1..Len(bytes) : bytes[i] >= 128 THEN None
    ELSE Some([i \in 1..Len(bytes) |-> Chr(bytes[i])])

----------------------------------------------------------------------------
(* HTTPResponse: the responses built in memory                             *)

\* lib.rs:238-242
new_200_ok(content) ==
    <<"H","T","T","P","/","1",".","1"," ","2","0","0"," ","O","K","CR","LF","C","o","n","t","e","n","t","-","L","e","n","g","t","h",":"," ">> \o to_string(Len(content)) \o <<"CR","LF","CR","LF">>
    \o content

\* lib.rs:263-266
new_401_unauthorized(realm_name) ==
    <<"H","T","T","P","/","1",".","1"," ","4","0","1"," ","U","n","a","u","t","h","o","r","i","z","e","d","CR","LF","W","W","W","-","A","u","t","h","e","n","t","i","c","a","t","e",":"," ","B","a","s","i","c"," ","r","e","a","l","m","=","\"">> \o realm_name
    \o <<"\"","CR","LF","CR","LF">>

\* lib.rs:311-315
new_404_not_found(filename) ==
    LET message == <<"E","r","r","o","r",":"," ","C","o","u","l","d"," ","n","o","t"," ","f","i","n","d"," ","f","i","l","e"," ">> \o filename
    IN <<"H","T","T","P","/","1",".","1"," ","4","0","4"," ","N","o","t"," ","F","o","u","n","d","CR","LF","C","o","n","t","e","n","t","-","L","e","n","g","t","h",":"," ">> \o to_string(Len(message))
       \o <<"CR","LF","CR","LF">> \o message

\* lib.rs:318-322
new_500_server_error(error_message) ==
    LET message == <<"I","n","t","e","r","n","a","l"," ","S","e","r","v","e","r"," ","E","r","r","o","r"," ","o","c","c","u","r","r","e","d",":"," ">> \o error_message
    IN <<"H","T","T","P","/","1",".","1"," ","5","0","0"," ","I","n","t","e","r","n","a","l"," ","S","e","r","v","e","r"," ","E","r","r","o","r","CR","LF","C","o","n","t","e","n","t","-","L","e","n","g","t","h",":"," ">> \o to_string(Len(message))
       \o <<"CR","LF","CR","LF">> \o message

----------------------------------------------------------------------------
(* The TcpStream of a connection                                           *)

\* A peer either takes everything (None) or takes Some(k) bytes of the
\* response and then is gone. What the stream does with buf when `wire` is
\* what it took so far: [wire, ok].

\* Write::write_all
WriteAll(w, peer, buf) ==
    IF peer = None \/ Len(w) + Len(buf) <= Unwrap(peer)
    THEN [wire |-> w \o buf, ok |-> TRUE]
    ELSE [wire |-> w \o SubSeq(buf, 1, Unwrap(peer) - Len(w)), ok |-> FALSE]

\* TcpStream::write: one call, which takes what still fits and fails only
\* if nothing does
WriteOnce(w, peer, buf) ==
    IF peer = None \/ Len(w) + Len(buf) <= Unwrap(peer)
    THEN [wire |-> w \o buf, ok |-> TRUE]
    ELSE IF Len(w) < Unwrap(peer)
    THEN [wire |-> w \o SubSeq(buf, 1, Unwrap(peer) - Len(w)), ok |-> TRUE]
    ELSE [wire |-> w, ok |-> FALSE]

\* lib.rs:368-373: write_all, then flush (which does nothing on a TcpStream)
send_to_tcp_stream(w, peer, http_response) == WriteAll(w, peer, http_response)

----------------------------------------------------------------------------
(* The server process: main, handle_connection, dir_response and           *)
(* file_response of main.rs                                                *)

MaxConnections == 2

\* The directory the binary lies in: a file, a file that cannot be opened,
\* an empty directory, a directory that cannot be read, and the binary.
\* The content of a directory is the names in it.
FileSystem ==
    [name \in { <<"a">>, <<"s">>, <<"d">>, <<"e">>, <<"h">> } |->
        CASE name = <<"a">> -> [is_dir |-> FALSE, readable |-> TRUE, content |-> <<"x", "y">>]
          [] name = <<"s">> -> [is_dir |-> FALSE, readable |-> FALSE, content |-> <<"x">>]
          [] name = <<"d">> -> [is_dir |-> TRUE, readable |-> TRUE, content |-> <<>>]
          [] name = <<"e">> -> [is_dir |-> TRUE, readable |-> FALSE, content |-> <<>>]
          [] name = <<"h">> -> [is_dir |-> FALSE, readable |-> TRUE, content |-> <<"x">>]]

RootEntry ==
    [is_dir |-> TRUE, readable |-> TRUE, content |-> << <<"a">>, <<"d">>, <<"e">>, <<"h">>, <<"s">> >>]

\* main.rs:162-163: the parent directory of the binary
RootDir == PathParent(args.binary_path)

\* The entry of the model's file system at the components `rel` below the
\* root directory; the file system holds nothing outside the root directory
EntryAt(rel) ==
    IF rel = None THEN None
    ELSE IF Unwrap(rel) = <<>> THEN Some(RootEntry)
    ELSE IF Len(Unwrap(rel)) = 1 /\ Unwrap(rel)[1] \in DOMAIN FileSystem
         THEN Some(FileSystem[Unwrap(rel)[1]])
    ELSE None

\* fs::metadata(fs_path).ok()
Metadata(fs_path) ==
    IF fs_path = <<>> THEN None
    ELSE EntryAt(PathStripPrefix(fs_path, Unwrap(RootDir)))

\* main.rs:151-157: the query string, and the GET path without it
QueryString(get_path) ==
    IF Contains(get_path, <<"?">>) THEN Some(Split(get_path, <<"?">>)[2]) ELSE None
PathWithoutQuery(get_path) == Split(get_path, <<"?">>)[1]

\* main.rs:164: None where decode_utf8().unwrap() panics
DecodedGetPath(req) == DecodeUtf8(PercentDecode(PathWithoutQuery(get_get_path(req))))


\* main.rs:275-298, with format_body (main.rs:308) and format_path
\* (main.rs:387) in the list view and ascending order, without the script
\* and the view and sort links of main.rs:355-378
DirBody(dir_path, folder_items) ==
    LET format_path(path) ==
            <<"<","a"," ","h","r","e","f","=","\"","/">> \o path \o <<"\"",">">> \o path \o <<"<","/","a",">","<","b","r",">","CR","LF">>
        html_body ==
            IF folder_items = <<>> THEN <<"T","h","i","s"," ","f","o","l","d","e","r"," ","i","s"," ","e","m","p","t","y",".">>
            ELSE <<"/">> \o dir_path \o <<" ","<","i",">","(">> \o to_string(Len(folder_items))
                 \o <<" ","i","t","e","m","s",")","<","/","i",">","<","b","r",">","CR","LF">>
                 \o Concat([i \in 1..Len(folder_items) |-> format_path(folder_items[i])])
    IN <<"<","!","D","O","C","T","Y","P","E"," ","h","t","m","l",">","<","h","t","m","l",">","<","h","e","a","d",">","<","m","e","t","a"," ","c","h","a","r","s","e","t","=","\"","u","t","f","-","8","\"","/",">","<","/","h","e","a","d",">","<","b","o","d","y",">","CR","LF">>
       \o html_body \o <<"<","/","b","o","d","y",">","<","/","h","t","m","l",">","CR","LF">>

\* io::copy(&mut file, stream)? and stream.flush()? after the header write
\* `h`, whose byte count is dropped: [wire, val, cause]
CopyEnd(b) ==
    IF ~b.ok THEN [wire |-> b.wire, val |-> "Err", cause |-> "transport"]
    ELSE [wire |-> b.wire, val |-> "Ok", cause |-> ""]

CopyAfter(h, peer, bytes) ==
    IF ~h.ok THEN [wire |-> h.wire, val |-> "Err", cause |-> "transport"]
    ELSE CopyEnd(WriteAll(h.wire, peer, bytes))

\* lib.rs:328-339 in one step: [wire, val, cause]
Stream200(w, peer, entry) ==
    IF ~entry.readable THEN [wire |-> w, val |-> "Err", cause |-> "open"]
    ELSE CopyAfter(WriteOnce(w, peer, Header200(Len(entry.content))), peer, entry.content)

\* lib.rs:342-365 in one step: [wire, val, cause]
Stream206(w, peer, entry, range, build) ==
    IF ~entry.readable THEN [wire |-> w, val |-> "Err", cause |-> "open"]
    ELSE IF SeekStart(range) < 0 THEN [wire |-> w, val |-> "Err", cause |-> "seek"]
    ELSE IF TakeLimit(range, build) < 0 THEN [wire |-> w, val |-> "panic", cause |-> "lib.rs:351"]
    ELSE CopyAfter(WriteOnce(w, peer, Header206(range, Len(entry.content))), peer,
                   TakeBytes(entry.content, SeekStart(range), TakeLimit(range, build)))

\* main.rs:223-265: the thumbnail ffmpeg makes of a file it can read, the
\* empty Vec otherwise
generate_jpeg_thumbnail(entry) == IF entry.readable THEN <<"j">> ELSE <<>>

\* A thread main has not spawned yet. A thread keeps the locals of
\* handle_connection that its later steps read: query_string (main.rs:151),
\* fs_path (main.rs:166) and path_metadata (main.rs:169). The file system
\* of the model does not change, so what a later open or read_dir finds at
\* fs_path is what fs::metadata found.
Unborn ==
    [pc |-> "unborn", http_request |-> <<>>, query_string |-> None, fs_path |-> <<>>,
     path_metadata |-> <<>>, wire |-> <<>>, ret |-> <<>>]

\* handle_connection returns val (Ok or Err); cause tells the errors apart.
Done(w, out, val, cause) ==
    [w EXCEPT !.pc = "done", !.wire = out, !.ret = [val |-> val, cause |-> cause]]

\* The thread panics.
Panicked(w, at) ==
    [w EXCEPT !.pc = "panicked", !.ret = [val |-> "panic", cause |-> at]]

\* `response.send_to_tcp_stream(&mut stream)?; return Err(..)`
SendThenErr(w, peer, http_response, cause) ==
    LET s == send_to_tcp_stream(w.wire, peer, http_response)
    IN Done(w, s.wire, "Err", IF s.ok THEN cause ELSE "transport")

ServerFrame ==
    UNCHANGED <<pc, sent, incoming, http_request, args, given_key_value_pairs,
                verifier_calls, md5_calls, ret, partial_file, header_buf,
                header_written, wire>>

\* main.rs:83-94: the next connection comes in and gets its thread; an
\* error of accept makes stream.expect panic in the main thread, which ends
\* the process
accept ==
    /\ listener = "listening"
    /\ \E c \in DOMAIN workers :
          /\ workers[c].pc = "unborn"
          /\ \A d \in 1..(c - 1) : workers[d].pc # "unborn"
          /\ \/ workers' = [workers EXCEPT ![c].pc = "read"] /\ UNCHANGED listener
             \/ listener' = "panicked" /\ UNCHANGED workers
    /\ UNCHANGED CACHED_THUMBNAILS
    /\ ServerFrame

\* main.rs:103-109
hc_read ==
    /\ listener = "listening"
    /\ \E c \in DOMAIN workers :
          /\ workers[c].pc = "read"
          /\ workers' = [workers EXCEPT ![c] =
                IF incoming[c].read = "Err"
                THEN SendThenErr(@, incoming[c].peer,
                                 new_500_server_error(<<"C","o","u","l","d"," ","n","o","t"," ","r","e","a","d"," ","H","T","T","P"," ","r","e","q","u","e","s","t">>), "read")
                ELSE [@ EXCEPT !.pc = "authorize",
                               !.http_request = ReadBuffer(incoming[c].bytes)]]
    /\ UNCHANGED <<listener, CACHED_THUMBNAILS>>
    /\ ServerFrame

\* main.rs:110-126
hc_authorize ==
    /\ listener = "listening"
    /\ \E c \in DOMAIN workers :
          /\ workers[c].pc = "authorize"
          /\ workers' = [workers EXCEPT ![c] =
                IF /\ args.username # <<>> \/ args.password # <<>>
                   /\ get_authorization(@.http_request) # Some(<<args.username, args.password>>)
                THEN SendThenErr(@, incoming[c].peer, new_401_unauthorized(<<>>), "unauthorized")
                ELSE [@ EXCEPT !.pc = "route"]]
    /\ UNCHANGED <<listener, CACHED_THUMBNAILS>>
    /\ ServerFrame

\* main.rs:169-186: the metadata of fs_path; the 404 names the path with
\* the root directory stripped (main.rs:172), and a file or directory goes
\* to its response function
RouteFound(w, peer, fs_path, metadata, rel) ==
    IF metadata = None
    THEN IF rel = None THEN Panicked(w, "main.rs:172")
         ELSE SendThenErr(w, peer, new_404_not_found(PathText(Unwrap(rel))), "not_found")
    ELSE [w EXCEPT !.pc = IF Unwrap(metadata).is_dir THEN "dir_response" ELSE "file_response",
                   !.query_string = QueryString(get_get_path(w.http_request)),
                   !.fs_path = fs_path,
                   !.path_metadata = Unwrap(metadata)]

\* main.rs:164-166: the decoded GET path, joined to the root directory
RouteJoined(w, peer, root_dir, fs_path) ==
    RouteFound(w, peer, fs_path, Metadata(fs_path), PathStripPrefix(fs_path, root_dir))

RouteDecoded(w, peer, root_dir, decoded) ==
    IF decoded = None THEN Panicked(w, "main.rs:164")
    ELSE RouteJoined(w, peer, root_dir, PathJoin(root_dir, Tail(Unwrap(decoded))))

\* main.rs:135-163: the log line, which reads the range and panics where
\* get_requested_range does, and the root directory
RouteLogged(w, peer, range_panic) ==
    IF range_panic # "" THEN Panicked(w, range_panic)
    ELSE IF RootDir = None THEN Panicked(w, "main.rs:163")
    ELSE RouteDecoded(w, peer, Unwrap(RootDir), DecodedGetPath(w.http_request))

\* main.rs:128-176: the sanity check, the log line, the path in the file
\* system, its metadata, and the 404
Route(w, peer) ==
    IF ~StartsWith(get_get_path(w.http_request), <<"/">>)
    THEN SendThenErr(w, peer, new_500_server_error(<<"G","E","T"," ","p","a","t","h"," ","d","o","e","s"," ","n","o","t"," ","s","t","a","r","t"," ","w","i","t","h"," ","a"," ","'","/","'","!">>),
                     "sanity")
    ELSE IF contains_range_header(w.http_request)
    THEN RouteLogged(w, peer, get_requested_range(w.http_request).panic)
    ELSE RouteLogged(w, peer, "")

hc_route ==
    /\ listener = "listening"
    /\ \E c \in DOMAIN workers :
          /\ workers[c].pc = "route"
          /\ workers' = [workers EXCEPT ![c] = Route(@, incoming[c].peer)]
    /\ UNCHANGED <<listener, CACHED_THUMBNAILS>>
    /\ ServerFrame

\* `response.send_to_tcp_stream(&mut stream)?; Ok(())`
SendEnd(w, s) ==
    IF ~s.ok THEN Done(w, s.wire, "Err", "transport") ELSE Done(w, s.wire, "Ok", "")

DirListing(w, peer, entry, rel) ==
    IF ~entry.readable THEN Done(w, w.wire, "Err", "read_dir")
    ELSE SendEnd(w, send_to_tcp_stream(w.wire, peer,
                        new_200_ok(DirBody(PathText(rel), entry.content))))

\* main.rs:177-181 and dir_response (main.rs:271-300): the 500 of
\* main.rs:179 is built and dropped, never sent
DirResponse(w, peer) ==
    DirListing(w, peer, w.path_metadata,
               Unwrap(PathStripPrefix(w.fs_path, Unwrap(RootDir))))

hc_dir_response ==
    /\ listener = "listening"
    /\ \E c \in DOMAIN workers :
          /\ workers[c].pc = "dir_response"
          /\ workers' = [workers EXCEPT ![c] = DirResponse(@, incoming[c].peer)]
    /\ UNCHANGED <<listener, CACHED_THUMBNAILS>>
    /\ ServerFrame

IsThumbnailRequest(w) == w.query_string = Some(<<"t","h","u","m","b","n","a","i","l">>)

\* what write_200_ok_file_to_stream or write_206_partial_file_to_stream
\* returned to file_response
FileSent(w, r) ==
    IF r.val = "panic" THEN Panicked(w, r.cause) ELSE Done(w, r.wire, r.val, r.cause)

\* main.rs:208-213: the range of the request
FileRange(w, peer, entry, range) ==
    IF range.panic # ""
    THEN Panicked(w, range.panic)
    ELSE FileSent(w, Stream206(w.wire, peer, entry, <<range.start, range.end>>, args.build))

\* main.rs:182-186 and file_response without a thumbnail (main.rs:206-218):
\* the 500 of main.rs:184 is built and dropped, never sent
FileResponse(w, peer) ==
    IF contains_range_header(w.http_request)
    THEN FileRange(w, peer, w.path_metadata, get_requested_range(w.http_request))
    ELSE FileSent(w, Stream200(w.wire, peer, w.path_metadata))

hc_file_response ==
    /\ listener = "listening"
    /\ \E c \in DOMAIN workers :
          /\ workers[c].pc = "file_response"
          /\ ~IsThumbnailRequest(workers[c])
          /\ workers' = [workers EXCEPT ![c] = FileResponse(@, incoming[c].peer)]
    /\ UNCHANGED <<listener, CACHED_THUMBNAILS>>
    /\ ServerFrame

\* main.rs:199-204: lock the mutex (the thread waits while another holds
\* it), take the thumbnail from the map or make it. No thread panics while
\* it holds the lock, so lock().unwrap() finds no poisoned mutex.
fr_thumbnail_lock ==
    /\ listener = "listening"
    /\ \E c \in DOMAIN workers :
          /\ workers[c].pc = "file_response"
          /\ IsThumbnailRequest(workers[c])
          /\ CACHED_THUMBNAILS.owner = 0
          /\ CACHED_THUMBNAILS' =
                [owner |-> c,
                 map |-> IF workers[c].fs_path \in DOMAIN CACHED_THUMBNAILS.map
                         THEN CACHED_THUMBNAILS.map
                         ELSE (workers[c].fs_path :>
                                  generate_jpeg_thumbnail(workers[c].path_metadata))
                              @@ CACHED_THUMBNAILS.map]
          /\ workers' = [workers EXCEPT ![c].pc = "thumbnail_send"]
    /\ UNCHANGED listener
    /\ ServerFrame

\* main.rs:200-205: the response with the thumbnail of the map, sent
ThumbnailSend(w, peer) ==
    SendEnd(w, send_to_tcp_stream(w.wire, peer, new_200_ok(CACHED_THUMBNAILS.map[w.fs_path])))

\* Mutant: a thread whose send fails keeps the mutex.
fr_thumbnail_send_LockKept ==
    /\ listener = "listening"
    /\ \E c \in DOMAIN workers :
          /\ workers[c].pc = "thumbnail_send"
          /\ workers' = [workers EXCEPT ![c] = ThumbnailSend(@, incoming[c].peer)]
          /\ CACHED_THUMBNAILS' =
                [CACHED_THUMBNAILS EXCEPT
                    !.owner = IF workers'[c].ret.val = "Ok" THEN 0 ELSE c]
    /\ UNCHANGED listener
    /\ ServerFrame

\* main.rs:200-205: send the clone of the thumbnail while the guard of the
\* mutex is alive; the guard is dropped at the end of the statement, also
\* when `?` returns the error of the send
fr_thumbnail_send ==
    /\ listener = "listening"
    /\ \E c \in DOMAIN workers :
          /\ workers[c].pc = "thumbnail_send"
          /\ workers' = [workers EXCEPT ![c] = ThumbnailSend(@, incoming[c].peer)]
          /\ CACHED_THUMBNAILS' = [CACHED_THUMBNAILS EXCEPT !.owner = 0]
    /\ UNCHANGED listener
    /\ ServerFrame

NextServer ==
    \/ accept
    \/ hc_read
    \/ hc_authorize
    \/ hc_route
    \/ hc_dir_response
    \/ hc_file_response
    \/ fr_thumbnail_lock
    \/ fr_thumbnail_send

\* No call of the engine outside the server is under way.
NoCall ==
    /\ pc = "" /\ sent = <<>> /\ http_request = <<>>
    /\ given_key_value_pairs = <<>> /\ verifier_calls = <<>> /\ md5_calls = <<>>
    /\ ret = <<>> /\ partial_file = <<>> /\ header_buf = <<>>
    /\ header_written = 0 /\ wire = <<>>

\* What a peer does on its connection: the request it sends (with the name
\* it asks for, relative to the root directory), whether the read of the
\* server fails, and how much of the response it takes.
Peer(line, name, headers, read, peer) ==
    [bytes |-> RequestText(line, headers), name |-> name, read |-> read, peer |-> peer]

----------------------------------------------------------------------------
(* One connection, served by handle_connection                             *)

ConnRequests ==
    { <<<<"G","E","T"," ","/","a"," ","H","T","T","P","/","1",".","1">>, <<"a">>>>, <<<<"G","E","T"," ","/","s"," ","H","T","T","P","/","1",".","1">>, <<"s">>>>,
      <<<<"G","E","T"," ","/","d"," ","H","T","T","P","/","1",".","1">>, <<"d">>>>, <<<<"G","E","T"," ","/","e"," ","H","T","T","P","/","1",".","1">>, <<"e">>>>,
      <<<<"G","E","T"," ","/","n"," ","H","T","T","P","/","1",".","1">>, <<"n">>>>, <<<<"G","E","T"," ","a"," ","H","T","T","P","/","1",".","1">>, <<"a">>>>,
      <<<<"G","E","T"," ","/","/","e","t","c","/","n"," ","H","T","T","P","/","1",".","1">>, <<"/","e","t","c","/","n">>>>, <<<<"G","E","T"," ","/",".",".","/","n"," ","H","T","T","P","/","1",".","1">>, <<".",".","/","n">>>>,
      <<<<"G","E","T"," ","/","a","?","t","h","u","m","b","n","a","i","l"," ","H","T","T","P","/","1",".","1">>, <<"a">>>>, <<<<"G","E","T"," ","/","%","6","e"," ","H","T","T","P","/","1",".","1">>, <<"n">>>>,
      <<<<"G","E","T"," ","/","%","f","f"," ","H","T","T","P","/","1",".","1">>, <<"?">>>>, <<<<"G","E","T"," ","/"," ","H","T","T","P","/","1",".","1">>, <<>> >> }

ConnHeaders ==
    { <<>>, << <<"R","a","n","g","e",":"," ","b","y","t","e","s","=","0","-","0">> >>, << <<"R","a","n","g","e",":"," ","b","y","t","e","s","=","1","-">> >>, << <<"R","a","n","g","e",":"," ","b","y","t","e","s","=","5","-">> >>,
      << <<"X","-","R","a","n","g","e",":"," ","b","y","t","e","s","=","0","-","1">> >>, << BasicLine(<<"u">>, <<"p">>) >>, << BasicLine(<<"w","i","k","i">>, <<"p">>) >>,
      << BasicLine(<<"u">>, <<"p",":","x">>) >> }

\* The peer takes all of the response, none of it, or its first line.
ConnPeers == {None, Some(0), Some(Len(<<"H","T","T","P","/","1",".","1"," ","2","0","0"," ","O","K","CR","LF">>))}

InitConn ==
    /\ listener = "listening"
    /\ workers = <<Unborn>>
    /\ CACHED_THUMBNAILS = [owner |-> 0, map |-> <<>>]
    /\ \/ \E r \in ConnRequests, headers \in ConnHeaders, peer \in ConnPeers :
             incoming = <<Peer(r[1], r[2], headers, "Ok", peer)>>
       \/ \E peer \in ConnPeers :
             incoming = <<[bytes |-> <<>>, name |-> <<>>, read |-> "Err", peer |-> peer]>>
    /\ \E cred \in { <<<<>>, <<>>>>, << <<"u">>, <<"p">> >> }, binary_path \in { <<"/","s","r","v","/","h">>, <<"h">> } :
          args = [username |-> cred[1], password |-> cred[2],
                  binary_path |-> binary_path, build |-> "debug"]
    /\ NoCall

SpecConn == InitConn /\ [][NextServer]_vars

----------------------------------------------------------------------------
(* Claims about one connection                                             *)

\* How often pat occurs in s.
RECURSIVE CountOf(_, _)
CountOf(s, pat) ==
    IF Len(s) < Len(pat) THEN 0
    ELSE (IF StartsWith(s, pat) THEN 1 ELSE 0) + CountOf(Tail(s), pat)

StatusLines(w) == CountOf(w, <<"H","T","T","P","/","1",".","1"," ">>)

\* The status code of the response that begins w.
StatusCode(w) == SubSeq(w, Len(<<"H","T","T","P","/","1",".","1"," ">>) + 1, Len(<<"H","T","T","P","/","1",".","1"," ">>) + 3)

\* The body of the response that begins w.
ResponseBody(w) ==
    IF Contains(w, <<"CR","LF","CR","LF">>)
    THEN SubSeq(w, Len(Split(w, <<"CR","LF","CR","LF">>)[1]) + Len(<<"CR","LF","CR","LF">>) + 1, Len(w))
    ELSE <<>>

\* handle_connection of connection c returned the error `cause`.
Failed(c, cause) ==
    /\ workers[c].pc = "done"
    /\ workers[c].ret = [val |-> "Err", cause |-> cause]

\* The failures that happen before a byte of a response is written.
EarlyFailures == {"read", "sanity", "not_found", "open", "read_dir"}

\* C17: a connection whose handling fails before a byte of a response was
\* written (the request cannot be read, the path does not start with "/",
\* the file is missing, the file cannot be opened, the directory cannot be
\* read) gets exactly one response, with status 404 or 500, when its peer
\* takes what is sent; and no connection gets two status lines.
C17_OneStatusPerFailure ==
    \A c \in DOMAIN workers :
        /\ StatusLines(workers[c].wire) <= 1
        /\ (/\ incoming[c].peer = None
            /\ \E cause \in EarlyFailures : Failed(c, cause))
           => /\ StatusLines(workers[c].wire) = 1
              /\ StatusCode(workers[c].wire) \in {<<"4","0","4">>, <<"5","0","0">>}

\* C18: the body of a 404 that handle_connection sent in full is the
\* message with the name the request asks for, relative to the root
\* directory, and that name is no absolute path of the file system.
C18_NotFoundNamesRelativePath ==
    \A c \in DOMAIN workers :
        (Failed(c, "not_found") /\ incoming[c].peer = None)
        => /\ StatusCode(workers[c].wire) = <<"4","0","4">>
           /\ ResponseBody(workers[c].wire)
                 = <<"E","r","r","o","r",":"," ","C","o","u","l","d"," ","n","o","t"," ","f","i","n","d"," ","f","i","l","e"," ">> \o incoming[c].name
           /\ ~IsAbsolute(SubSeq(ResponseBody(workers[c].wire),
                                 Len(<<"E","r","r","o","r",":"," ","C","o","u","l","d"," ","n","o","t"," ","f","i","n","d"," ","f","i","l","e"," ">>) + 1,
                                 Len(ResponseBody(workers[c].wire))))

----------------------------------------------------------------------------
(* The process with several connections at a time                          *)

ServerRequests ==
    { <<<<"G","E","T"," ","/","a","?","t","h","u","m","b","n","a","i","l"," ","H","T","T","P","/","1",".","1">>, <<"a">>>>, <<<<"G","E","T"," ","/","a"," ","H","T","T","P","/","1",".","1">>, <<"a">>>>,
      <<<<"G","E","T"," ","/","d"," ","H","T","T","P","/","1",".","1">>, <<"d">>>> }

ServerPeers == {None, Some(0)}

InitServer ==
    /\ listener = "listening"
    /\ workers = [c \in 1..MaxConnections |-> Unborn]
    /\ CACHED_THUMBNAILS = [owner |-> 0, map |-> <<>>]
    /\ incoming \in [1..MaxConnections ->
                        {Peer(r[1], r[2], <<>>, "Ok", peer) :
                            r \in ServerRequests, peer \in ServerPeers}]
    /\ args = [username |-> <<>>, password |-> <<>>,
               binary_path |-> <<"/","s","r","v","/","h">>, build |-> "debug"]
    /\ NoCall

\* A thread that can respond, or can take the mutex, does so in the end (the
\* operating system runs every thread that is ready). Nothing is asked of
\* the connections that come in or of the steps before the response.
SpecServer ==
    /\ InitServer /\ [][NextServer]_vars
    /\ WF_vars(hc_dir_response) /\ WF_vars(hc_file_response)
    /\ WF_vars(fr_thumbnail_lock) /\ WF_vars(fr_thumbnail_send)

----------------------------------------------------------------------------
(* Claims about the process                                                *)

\* handle_connection of connection c returned the error of a write.
TransportFailed(c) == Failed(c, "transport")

\* The thread of connection c is at its response: in dir_response, in
\* file_response (where it may wait for the mutex), or sending a thumbnail.
Responding(c) == workers[c].pc \in {"dir_response", "file_response", "thumbnail_send"}

\* The thread of connection c is through, with its 200 response sent if
\* its peer takes what is sent.
Completed(c) ==
    /\ workers[c].pc = "done"
    /\ incoming[c].peer = None
       => /\ workers[c].ret.val = "Ok"
          /\ StatusCode(workers[c].wire) = <<"2","0","0">>

\* C19: the step in which a write to the peer of a connection fails ends
\* the thread of that connection and nothing else: the listener and every
\* other thread are as they were and the mutex of the thumbnails is not left
\* locked by the thread that ended; afterwards the listener still accepts
\* the next connection, and every other thread that is at its response
\* completes it, unless an error of accept itself ends the process.
C19_TransportErrorEndsOneWorker ==
    /\ [][\A c \in DOMAIN workers :
             (~TransportFailed(c) /\ TransportFailed(c)')
             => /\ listener = "listening" /\ listener' = listener
                /\ \A d \in DOMAIN workers \ {c} : workers'[d] = workers[d]
                /\ CACHED_THUMBNAILS'.owner # c]_vars
    /\ []((/\ \E c \in DOMAIN workers : TransportFailed(c)
           /\ \E d \in DOMAIN workers : workers[d].pc = "unborn"
           /\ listener = "listening")
          => ENABLED accept)
    /\ \A c, d \in 1..MaxConnections :
          (c # d /\ TransportFailed(c) /\ Responding(d))
          ~> (Completed(d) \/ listener = "panicked")

\* A write to the peer of one connection failed while the thread held the
\* mutex of the thumbnails, and the thread of another connection has sent
\* its thumbnail in full.
C19_Witness ==
    \E c, d \in DOMAIN workers :
        /\ c # d
        /\ TransportFailed(c) /\ IsThumbnailRequest(workers[c])
        /\ IsThumbnailRequest(workers[d]) /\ incoming[d].peer = None /\ Completed(d)
        /\ workers[d].wire = new_200_ok(CACHED_THUMBNAILS.map[workers[d].fs_path])
        /\ listener = "listening"

----------------------------------------------------------------------------
(* The constructors that take the body as `&mut Vec<u8>`                    *)

\* lib.rs:255-259
new_400_bad_request(content) ==
    <<"H","T","T","P","/","1",".","1"," ","4","0","0"," ","B","a","d"," ","R","e","q","u","e","s","t","CR","LF","C","o","n","t","e","n","t","-","L","e","n","g","t","h",":"," ">> \o to_string(Len(content)) \o <<"CR","LF","CR","LF">>
    \o content

\* lib.rs:304-308
new_403_forbidden(content) ==
    <<"H","T","T","P","/","1",".","1"," ","4","0","3"," ","F","o","r","b","i","d","d","e","n","CR","LF","C","o","n","t","e","n","t","-","L","e","n","g","t","h",":"," ">> \o to_string(Len(content)) \o <<"CR","LF","CR","LF">>
    \o content

MaxBody == 3

\* The bytes of a body: a letter and the two bytes that end a header block.
Bodies == UNION {[1..n -> {"a", "CR", "LF"}] : n \in 0..MaxBody}

\* The caller holds a Vec<u8> and calls one of the constructors on it; sent
\* keeps what the Vec held before the call.
InitResponse ==
    /\ pc = "construct"
    /\ \E constructor \in {"new_200_ok", "new_400_bad_request", "new_403_forbidden"},
          content \in Bodies :
          /\ args = [constructor |-> constructor, content |-> content]
          /\ sent = [content |-> content]
    /\ incoming = <<>>
    /\ http_request = <<>>
    /\ given_key_value_pairs = <<>>
    /\ verifier_calls = <<>>
    /\ md5_calls = <<>>
    /\ ret = <<>>
    /\ partial_file = <<>>
    /\ header_buf = <<>>
    /\ header_written = 0
    /\ wire = <<>>
    /\ NoServer

\* lib.rs:239-241, 256-258, 305-307: the header block is formatted with
\* content.len(), then http_response.append(content) moves every byte of
\* the caller's Vec into the response and leaves that Vec empty
construct ==
    /\ pc = "construct"
    /\ pc' = "returned"
    /\ ret' = [op |-> args.constructor,
               val |-> CASE args.constructor = "new_200_ok" -> new_200_ok(args.content)
                         [] args.constructor = "new_400_bad_request" ->
                               new_400_bad_request(args.content)
                         [] args.constructor = "new_403_forbidden" ->
                               new_403_forbidden(args.content)]
    /\ args' = [args EXCEPT !.content = <<>>]
    /\ UNCHANGED <<sent, incoming, http_request, given_key_value_pairs, verifier_calls,
                   md5_calls, partial_file, header_buf, header_written, wire>>
    /\ UNCHANGED ServerVars

SpecResponse == InitResponse /\ [][construct]_vars

\* The value of the Content-Length line of the header block of response w.
ContentLength(w) ==
    ParseU64(Split(Split(w, <<"C","o","n","t","e","n","t","-","L","e","n","g","t","h",":"," ">>)[2], <<"CR","LF">>)[1])

Constructed == pc = "returned" /\ ret.op \in {"new_200_ok", "new_400_bad_request", "new_403_forbidden"}

\* C21: a constructor of a 200, 400 or 403 response leaves the Vec of the
\* caller as it was, and the Content-Length of the response is the number
\* of bytes that follow the header block.
C21_ConstructorsArePure ==
    Constructed
    => /\ args.content = sent.content
       /\ ContentLength(ret.val) = Some(Len(ResponseBody(ret.val)))
       /\ ResponseBody(ret.val) = sent.content

----------------------------------------------------------------------------
(* The window of a range with an end                                       *)

W206Returned == IsReturn("write_206_partial_file_to_stream")

\* C22: for a range (start, Some(end)) the 206 path takes end - start + 1
\* bytes, computed without underflow or overflow of the unsigned width: the
\* call does not abort and the limit of Take is not a wrapped count; and a
\* range with end < start is not served.
C22_WindowLengthNeverWraps ==
    (W206Returned /\ args.range[2] # None)
    => /\ ret.val # "panic"
       /\ partial_file # <<>>
          => partial_file.limit = Unwrap(args.range[2]) - args.range[1] + 1
       /\ Unwrap(args.range[2]) < args.range[1] => ret.val # "Ok"

----------------------------------------------------------------------------
(* Claims about the authorization of a connection                          *)

\* The server asks for credentials.
AuthRequired == args.username # <<>> \/ args.password # <<>>

\* The request text carries the Basic Authorization line of exactly the
\* username u and the password p.
CarriesCredentials(text, u, p) ==
    \E i \in 1..Len(Split(text, CRLF)) : Split(text, CRLF)[i] = BasicLine(u, p)

\* The thread of connection c is past the authorization check: it is about
\* to look up the path in the file system or has done so.  A thread that
\* ended on the 401 has written the 401 or, on a transport error, a part of
\* it.
PastAuthorization(c) ==
    \/ workers[c].pc \in {"route", "dir_response", "file_response", "thumbnail_send", "panicked"}
    \/ /\ workers[c].pc = "done"
       /\ workers[c].ret.cause # "unauthorized"
       /\ ~StartsWith(new_401_unauthorized(<<>>), workers[c].wire)

\* C23: when the server asks for credentials, a request that was read and
\* does not carry the Basic Authorization of exactly the configured username
\* and password never gets past the check, so no 200 or 206 is sent and the
\* file system is not touched for it; its connection gets one 401 and ends.
C23_OnlyExactCredentialsPass ==
    \A c \in DOMAIN workers :
        (/\ AuthRequired
         /\ incoming[c].read = "Ok"
         /\ ~CarriesCredentials(incoming[c].bytes, args.username, args.password))
        => /\ ~PastAuthorization(c)
           /\ ~StartsWith(workers[c].wire, <<"H","T","T","P","/","1",".","1"," ","2","0","0">>)
           /\ ~StartsWith(workers[c].wire, <<"H","T","T","P","/","1",".","1"," ","2","0","6">>)
           /\ (workers[c].pc = "done" /\ incoming[c].peer = None)
              => workers[c].wire = new_401_unauthorized(<<>>)

----------------------------------------------------------------------------
(* A transport that hangs, and the mutex of the thumbnails                  *)

\* The thread of connection c is in the write of main.rs:205, the
\* send_to_tcp_stream of the thumbnail response; with a transport that
\* hangs it stays there.
WritingThumbnail(c) == workers[c].pc = "thumbnail_send"

\* The thread of connection d is at the lock() of main.rs:201.
AtThumbnailLock(d) ==
    workers[d].pc = "file_response" /\ IsThumbnailRequest(workers[d])

\* C24: while the thread of one connection is in the write of a thumbnail
\* response, it does not hold the mutex of CACHED_THUMBNAILS, and the
\* thread of every other connection that asks for a thumbnail finds the
\* mutex free, so that it can take its thumbnail and respond.
C24_HungTransportBlocksOnlyItsWorker ==
    \A c \in DOMAIN workers :
        WritingThumbnail(c)
        => /\ CACHED_THUMBNAILS.owner # c
           /\ \A d \in DOMAIN workers \ {c} :
                 AtThumbnailLock(d) => CACHED_THUMBNAILS.owner = 0

====
